---- MODULE Spec2Model ----
(***************************************************************************)
(* throttle-proxy: the middleware chain of package proxymw.                *)
(*                                                                         *)
(*   ServeEntry -> Observer -> Blocker -> Jitterer -> Backpressure -> Exit  *)
(*                                                                         *)
(* The Backpressure controller (check / release / updateThrottle under one  *)
(* mutex), its per-query pollers (metricsLoop), and the request path of     *)
(* every client goroutine are modelled step by step.  Every action is one   *)
(* atomic step of the Go code: a critical section of bp.mu, one SyncMap     *)
(* call, one channel operation, or a stretch of goroutine-local code.       *)
(*                                                                         *)
(* float64 values (throttle percentages, allowance) are fixed-point         *)
(* integers in units of 1/Scale, with one extra code point for NaN.         *)
(***************************************************************************)
EXTENDS Integers, Sequences, FiniteSets, TLC

\* ------------------------------------------------------------------ bounds
\* number of client goroutines that issue requests (each one loops)
NumReq == 2
\* largest congestion_window_max a configuration is drawn with
MaxWindow == 3
\* number of terms of the series that evaluates math.Exp
ExpTerms == 12
\* number of failed polls a query's error counter is followed for
MaxPollErrors == 2

\* ------------------------------------------------------- float64 encoding
\* 1.0 in fixed point
Scale == 10000
\* the float64 NaN (a code point outside every finite value used)
NaN == Scale * Scale + 1
\* implementation-dependent result of int(NaN): minimum integer on amd64
\* (cvttsd2si), 0 on arm64 (fcvtzs)
IntOfNaN == {0 - Scale * Scale, 0}

Min2(a, b) == IF a <= b THEN a ELSE b
Max2(a, b) == IF a >= b THEN a ELSE b

\* Go builtin max on float64: NaN if either operand is NaN
FMax(a, b) == IF a = NaN \/ b = NaN THEN NaN ELSE Max2(a, b)
\* 1 - x on float64
OneMinus(x) == IF x = NaN THEN NaN ELSE Scale - x

\* sum_{k >= n} of the series of e^(num/den), term being the n-th term
RECURSIVE ExpSeries(_, _, _, _)
ExpSeries(num, den, n, term) ==
    IF n > ExpTerms \/ term = 0 THEN 0
    ELSE term + ExpSeries(num, den, n + 1, (term * num) \div (den * n))

\* math.Exp(-(num/den)) for num/den >= 0
ExpNeg(num, den) == (Scale * Scale) \div ExpSeries(num, den, 1, Scale)

\* ------------------------------------------------------------ configuration
DefaultThrottleCurve == 4

\* the configured backpressure queries (BackpressureQuery values)
QHot == [name |-> "hot", warn |-> 10, emergency |-> 100, curve |-> 0]
Queries == {QHot}
\* a second query, without a name
QAnon == [name |-> "", warn |-> 500, emergency |-> 2000, curve |-> 0]
LoopQueries == {QHot, QAnon}

\* values a poll can deliver (ValueFromPromQL accepts every non-negative
\* sample, and NaN, which is not < 0)
Samples == {10, 13, 1000, NaN}

\* the values the monitoring endpoint delivers in the runs of the whole chain
ChainSamples == {10, 1000}

\* a gauge no value was set on
NoSample == 0 - 1

\* variant of throttlePercent that saturates only above the emergency
\* threshold
throttlePercent_StrictEmergency(q, curr) ==
    IF curr = NaN THEN NaN
    ELSE IF curr <= q.warn THEN 0
    ELSE IF curr > q.emergency THEN Scale
    ELSE LET curve == IF q.curve = 0 THEN DefaultThrottleCurve ELSE q.curve
         IN  Scale - ExpNeg(curve * (curr - q.warn), q.emergency - q.warn)

\* BackpressureQuery.throttlePercent
throttlePercent(q, curr) ==
    IF curr = NaN THEN NaN
    ELSE IF curr <= q.warn THEN 0
    ELSE IF curr >= q.emergency THEN Scale
    ELSE LET curve == IF q.curve = 0 THEN DefaultThrottleCurve ELSE q.curve
         IN  Scale - ExpNeg(curve * (curr - q.warn), q.emergency - q.warn)

\* ------------------------------------------------------------------- state
VARIABLES
    cfg,            \* the immutable middleware Config the chain was built from
    metricValues,   \* the values the monitoring endpoint answers a query with
    sentHeaders,    \* the header sets the clients send requests with
    watermark,      \* Backpressure.watermark
    active,         \* Backpressure.active
    allowance,      \* Backpressure.allowance
    throttleFlags,  \* Backpressure.throttleFlags: query -> throttle percent
    pollPc,         \* per query: where its metricsLoop goroutine stands
    pollTp,         \* per query: the local throttlePercent of updateThrottle
    obs,            \* per client: where the goroutine that called the entry stands
                    \* ("wait": in Observer.Next, at or on its way to the select)
    task,           \* per client: where the goroutine running the chain stands
    cancelled,      \* per client: the request's Context is Done
    errc,           \* per client: the value buffered in executeNext's errc
    result,         \* per client: the error the chain entry got back
    admitted,       \* per client: check() succeeded for the current request
    released,       \* per client: number of release() calls for the current request
    wokeByCancel,   \* per client: Jitterer.sleep ended through ctx.Done
    activeGauge,    \* Observer.activeGauge
    inited,         \* the entry's Init has run
    ctxDone,        \* the Context handed to Init is Done
    queryErrCount,  \* per query: Backpressure.queryErrCount
    queryValGauge,  \* per query: Backpressure.queryValGauge
    cancelledDownstream, \* per client: its Context became Done while an admitted
                    \* request was inside bp.client.Next
    started,        \* per client: the stages whose Next was called, in call order
    incs,           \* per client: what Observer.Next added to its counters
    status,         \* per client: the status code ServeHTTP wrote
    headers,        \* per client: rr.Request().Header as Blocker.Next read it
    arg,            \* the arguments of the one function followed on its own
    ret             \* where that function stands, and what it has returned

ctlVars  == <<watermark, active, allowance>>
pollVars == <<throttleFlags, pollPc, pollTp>>
reqVars  == <<obs, task, cancelled, errc, result, admitted, released, wokeByCancel>>
procVars == <<inited, ctxDone, queryErrCount, queryValGauge>>
histVars == <<cancelledDownstream, started, incs, status, headers>>
envVars  == <<cfg, metricValues, sentHeaders>>
unitVars == <<arg, ret>>
chainVars == <<envVars, ctlVars, pollVars, reqVars, activeGauge, procVars, histVars>>
vars     == <<chainVars, unitVars>>

Reqs == 1 .. NumReq

\* ---- the values of type error that travel up the chain
BackpressureProxyType == "backpressure"
BlockerProxyType == "blocker"

\* BlockErr: a *RequestBlockedError tagged with the type of the client
BlockErrf(t, format, a) == [kind |-> "blocked", type |-> t, msg |-> format, args |-> a]
BlockErr(t, text) == BlockErrf(t, text, <<>>)
\* errors.New / fmt.Errorf: any other error
PlainErr(text) == [kind |-> "error", type |-> "", msg |-> text, args |-> <<>>]
\* the nil error
Nil == [kind |-> "nil", type |-> "", msg |-> "", args |-> <<>>]
\* not an error value: a panic unwinding the goroutine
Panicking == [kind |-> "panic", type |-> "", msg |-> "", args |-> <<>>]
\* not an error value: nothing sent or returned yet
NoValue == [kind |-> "none", type |-> "", msg |-> "", args |-> <<>>]

\* variant of ErrBackpressureBackoff built with errors.New
ErrBackpressureBackoff_Plain ==
    PlainErr("congestion window closed, backoff from backpressure")

ErrBackpressureBackoff ==
    BlockErr(BackpressureProxyType, "congestion window closed, backoff from backpressure")
\* the error of Blocker.Next on a match
ErrBlocker(header, val, regex) ==
    BlockErrf(BlockerProxyType, "header %s, value %s blocked by regex %s",
              <<header, val, regex>>)
\* the error of time.ParseDuration on X-Can-Wait
ErrParse == PlainErr("time: invalid duration")
\* variant of the error of LowCostRequest wrapped as a block
ErrCost_Blocked == BlockErr(BackpressureProxyType, "query cost")
\* an error of LowCostRequest
ErrCost == PlainErr("query cost")
\* an error of the exit (RoundTripperExit returns the transport's error)
ErrDownstream == PlainErr("downstream")
\* what the recover of executeNext sends
ErrPanic == PlainErr("panic calling Next")
\* ctx.Err() of a Done context
ErrCtx == PlainErr("context canceled")

\* errors.As(err, *RequestBlockedError)
IsBlocked(e) == e.kind = "blocked"

\* the values of the type label of Observer.blockCounter
ProxyTypes == {BackpressureProxyType, BlockerProxyType}

\* no counter of the Observer touched
NoIncs == [req |-> 0, block |-> [t \in ProxyTypes |-> 0], err |-> 0]

\* variant of Observer.Next that counts every non-nil error as an error
ObserverIncs_BlockIsError(e) ==
    [req   |-> 1,
     block |-> [t \in ProxyTypes |-> IF IsBlocked(e) /\ e.type = t THEN 1 ELSE 0],
     err   |-> IF e # Nil THEN 1 ELSE 0]

\* what Observer.Next adds to reqCounter, blockCounter and errCounter when
\* executeNext gave it e
ObserverIncs(e) ==
    [req   |-> 1,
     block |-> [t \in ProxyTypes |-> IF IsBlocked(e) /\ e.type = t THEN 1 ELSE 0],
     err   |-> IF e # Nil /\ ~IsBlocked(e) THEN 1 ELSE 0]

StatusTooManyRequests == 429
StatusInternalServerError == 500
\* no status written by the chain runtime
NoStatus == 0

\* variant of ServeHTTP without the errors.As test
Render_NoBlockTest(c, e) ==
    IF c.form # "server" \/ e = Nil \/ e = Panicking THEN NoStatus
    ELSE StatusInternalServerError

\* what the entry does with the value e of client.Next: ServeHTTP writes an
\* error envelope with a status; RoundTrip hands e to its caller; a panic
\* unwinds either of them
Render(c, e) ==
    IF c.form # "server" \/ e = Nil \/ e = Panicking THEN NoStatus
    ELSE IF IsBlocked(e) THEN StatusTooManyRequests
    ELSE StatusInternalServerError

\* ------------------------------------------------------- chain composition
\* variant of NewFromConfig that wraps the Jitterer around the Blocker
StageOrder_JitterFirst == <<"observer", "jitter", "blocker", "bp", "final">>

\* NewFromConfig wraps the exit with Backpressure, Jitterer, Blocker and
\* Observer, in this order, each only when enabled: the resulting call
\* order is Observer, Blocker, Jitterer, Backpressure, exit.
StageOrder == <<"observer", "blocker", "jitter", "bp", "final">>

StageEnabled(c, s) ==
    CASE s = "observer" -> c.observer
      [] s = "blocker"  -> c.blocker
      [] s = "jitter"   -> c.jitter
      [] s = "bp"       -> c.backpressure
      [] OTHER          -> TRUE

\* the client a stage at position i of StageOrder holds
NewFromConfig(c, i) ==
    LET later == {j \in (i + 1) .. Len(StageOrder) : StageEnabled(c, StageOrder[j])}
    IN  StageOrder[CHOOSE j \in later : \A k \in later : j <= k]

\* the program point a goroutine is at when it enters stage s
EnterStage(c, s) ==
    IF s = "bp" /\ ~c.lowCostBypass THEN "check" ELSE s

ClientOf(c, s) ==
    LET i == CHOOSE k \in 1 .. Len(StageOrder) : StageOrder[k] = s
    IN  EnterStage(c, NewFromConfig(c, i))

\* the stage whose Next stage s calls as its client
NextStage(c, s) ==
    NewFromConfig(c, CHOOSE k \in 1 .. Len(StageOrder) : StageOrder[k] = s)

\* ----------------------------------------------------------------- Blocker
\* longest BlockPatterns list a configuration is drawn with
MaxPatterns == 2

\* compiled regular expressions: the source text, and the header values of
\* HeaderValues that regexp.MatchString accepts
ReService == [src |-> "service.*", accepts |-> {"service1"}]
ReBot == [src |-> "bot", accepts |-> {"bot7"}]
Regexes == {ReService, ReBot}

HeaderNames == {"X-User-Agent", "X-Tenant"}

\* regexp.Regexp.MatchString
MatchString(regex, val) == val \in regex.accepts

\* the BlockPatterns lists `<header>=<pattern>` that pass ValidateBlockPatterns
BlockPatterns(n) ==
    UNION {[1 .. k -> [header : HeaderNames, regex : Regexes]] : k \in 0 .. n}

\* NewBlocker: the map header -> regex built by assigning the patterns in
\* list order, a later pattern of a header replacing an earlier one
NewBlocker(list) ==
    LET hs == {list[i].header : i \in 1 .. Len(list)}
        last(h) == CHOOSE i \in 1 .. Len(list) :
                      /\ list[i].header = h
                      /\ \A j \in 1 .. Len(list) : list[j].header = h => j <= i
    IN  [h \in hs |-> list[last(h)].regex]

\* the http.Header values of the requests: header name -> list of values
\* (no values: the header is absent)
Headers ==
    {[h \in HeaderNames |-> IF h = "X-User-Agent" THEN ua ELSE tn] :
        ua \in {<<>>, <<"safe-user">>, <<"service1">>, <<"safe-user", "bot7">>},
        tn \in {<<>>, <<"bot7">>}}
NoHeaders == [h \in HeaderNames |-> <<>>]

\* the index of the first of the values vals that regex matches, 0 if none
FirstMatch(regex, vals) ==
    IF \E i \in 1 .. Len(vals) : MatchString(regex, vals[i])
    THEN CHOOSE i \in 1 .. Len(vals) :
            /\ MatchString(regex, vals[i])
            /\ \A j \in 1 .. (i - 1) : ~MatchString(regex, vals[j])
    ELSE 0

\* the errors Blocker.Next can return for a request: the map is ranged over
\* in any order, the values of a header in list order; the first match
\* makes the error
BlockerErrs(pats, hdr) ==
    {ErrBlocker(h, hdr[h][FirstMatch(pats[h], hdr[h])], pats[h].src) :
        h \in {x \in DOMAIN pats : FirstMatch(pats[x], hdr[x]) # 0}}

\* ------------------------------------------------------------ Backpressure
\* int(float64(bp.max) * bp.allowance): the set of results a build can give
IntOfProduct(mx, a) ==
    IF a = NaN THEN IntOfNaN ELSE {(mx * a) \div Scale}

\* variants of constrainWatermark: the floor at min forgotten; min and max
\* applied in the wrong order; the ceiling at max * allowance forgotten
constrainWatermark_NoCeiling(w, conv, mn) == Max2(w, mn)
constrainWatermark_NoFloor(w, conv, mn) == Min2(w, conv)
constrainWatermark_FloorFirst(w, conv, mn) == Min2(Max2(w, mn), conv)

\* Backpressure.constrainWatermark, conv being int(float64(max)*allowance)
constrainWatermark(w, conv, mn) == Max2(Min2(w, conv), mn)

\* variant of updateThrottle that leaves the watermark to the next release
pollWatermark_Skip(w, conv, mn) == w

\* the call of constrainWatermark that ends updateThrottle
pollWatermark(w, conv, mn) == constrainWatermark(w, conv, mn)

\* variant of the test of check: one request too many
checkDenied_Strict(a, w) == a > w

\* the test of Backpressure.check
checkDenied(a, w) == a >= w

\* variant of check that forgets to count the request
admitActive_None(a) == a

\* bp.active++ of Backpressure.check
admitActive(a) == a + 1

\* variant of release that takes the watermark down
releaseWatermark_Decrease(w) == w - 1

\* variant of release that does not grow the watermark
releaseWatermark_Same(w) == w

\* bp.watermark++ of Backpressure.release
releaseWatermark(w) == w + 1

\* variant of release that gives back two slots
releaseActive_Twice(a) == Max2(0, a - 2)

\* variant of release that forgets the request it releases
releaseActive_None(a) == a

\* bp.active = max(0, bp.active-1) of Backpressure.release
releaseActive(a) == Max2(0, a - 1)

\* variant of SyncMap.Store that drops the other keys
Store_Only(m, k, v) == [x \in {k} |-> v]

\* SyncMap.Store
Store(m, k, v) == [x \in DOMAIN m \cup {k} |-> IF x = k THEN v ELSE m[x]]

\* the fold of updateThrottle over SyncMap.Range, started at 0.0
RECURSIVE RangeMax(_, _)
RangeMax(m, keys) ==
    IF keys = {} THEN 0
    ELSE LET k == CHOOSE x \in keys : TRUE
         IN  FMax(m[k], RangeMax(m, keys \ {k}))

\* no function followed on its own
NoArg == <<>>
NoRet == [pc |-> "none"]

\* NewBackpressure; the ServeEntry and Observer built around it
ChainFor(clients, configs, values, hdrs) ==
    /\ cfg \in configs
    /\ metricValues = values
    /\ sentHeaders = hdrs
    /\ watermark = cfg.min
    /\ active = 0
    /\ allowance = Scale
    /\ throttleFlags = [q \in {} |-> 0]
    /\ pollPc = [q \in cfg.queries |-> "none"]
    /\ pollTp = [q \in cfg.queries |-> 0]
    /\ obs = [r \in clients |-> "idle"]
    /\ task = [r \in clients |-> "none"]
    /\ cancelled = [r \in clients |-> FALSE]
    /\ errc = [r \in clients |-> NoValue]
    /\ result = [r \in clients |-> NoValue]
    /\ admitted = [r \in clients |-> FALSE]
    /\ released = [r \in clients |-> 0]
    /\ wokeByCancel = [r \in clients |-> FALSE]
    /\ activeGauge = 0
    /\ inited = FALSE
    /\ ctxDone = FALSE
    /\ queryErrCount = [q \in cfg.queries |-> 0]
    /\ queryValGauge = [q \in cfg.queries |-> NoSample]
    /\ cancelledDownstream = [r \in clients |-> FALSE]
    /\ started = [r \in clients |-> <<>>]
    /\ incs = [r \in clients |-> NoIncs]
    /\ status = [r \in clients |-> NoStatus]
    /\ headers = [r \in clients |-> NoHeaders]

\* the chain with the NumReq clients
ChainAtRest(configs, values, hdrs) == ChainFor(Reqs, configs, values, hdrs)

InitWith(configs, values, hdrs) ==
    /\ ChainAtRest(configs, values, hdrs)
    /\ arg = NoArg
    /\ ret = NoRet

\* ---- the monitoring endpoint
StatusOK == 200

\* what the endpoint can answer an instant query with: a response with one
\* sample for each value of values, and the ones ValueFromPromQL rejects
Responses(values) ==
    {[neterr |-> FALSE, code |-> StatusOK, decodes |-> TRUE, result |-> <<v>>] :
        v \in values}
    \cup {[neterr |-> TRUE, code |-> 0, decodes |-> FALSE, result |-> <<>>],
          [neterr |-> FALSE, code |-> StatusInternalServerError, decodes |-> TRUE,
           result |-> <<10>>],
          [neterr |-> FALSE, code |-> StatusOK, decodes |-> FALSE, result |-> <<>>],
          [neterr |-> FALSE, code |-> StatusOK, decodes |-> TRUE, result |-> <<>>],
          [neterr |-> FALSE, code |-> StatusOK, decodes |-> TRUE, result |-> <<10, 1000>>],
          [neterr |-> FALSE, code |-> StatusOK, decodes |-> TRUE, result |-> <<0 - 5>>]}

\* ValueFromPromQL: the value and the error it returns for the answer resp,
\* done telling whether its Context is Done
ValueFromPromQL(resp, done) ==
    IF done \/ resp.neterr THEN [val |-> 0, err |-> PlainErr("execute request")]
    ELSE IF resp.code # StatusOK THEN [val |-> 0, err |-> PlainErr("unexpected status code")]
    ELSE IF ~resp.decodes THEN [val |-> 0, err |-> PlainErr("decode response")]
    ELSE IF Len(resp.result) # 1
         THEN [val |-> 0, err |-> PlainErr("backpressure query must return exactly one value")]
    ELSE IF resp.result[1] # NaN /\ resp.result[1] < 0
         THEN [val |-> 0, err |-> PlainErr("backpressure query must have non-negative value")]
    ELSE [val |-> resp.result[1], err |-> Nil]

\* ---- the process
\* ServeEntry.Init / RoundTripperEntry.Init: the call goes down the chain to
\* Backpressure.Init, whose metricsLoop starts one goroutine per query and
\* returns
EntryInit ==
    /\ ~inited
    /\ inited' = TRUE
    /\ pollPc' = IF cfg.backpressure THEN [q \in cfg.queries |-> "tick"] ELSE pollPc
    /\ UNCHANGED <<envVars, unitVars, ctlVars, throttleFlags, pollTp, reqVars, activeGauge,
                   ctxDone, queryErrCount, queryValGauge, histVars>>

\* the Context handed to Init becomes Done
CtxCancel ==
    /\ ~ctxDone
    /\ ctxDone' = TRUE
    /\ UNCHANGED <<envVars, unitVars, ctlVars, pollVars, reqVars, activeGauge, inited,
                   queryErrCount, queryValGauge, histVars>>

\* ---- metricsLoop, one goroutine per query
\* variant of metricsLoop whose select has no ctx.Done case
pollStops_Never(done) == FALSE

\* whether the select of metricsLoop can take ctx.Done
pollStops(done) == done

\* the select takes ctx.Done: the goroutine returns
PollStop(q) ==
    /\ pollPc[q] = "tick"
    /\ pollStops(ctxDone)
    /\ pollPc' = [pollPc EXCEPT ![q] = "done"]
    /\ UNCHANGED <<envVars, unitVars, ctlVars, throttleFlags, pollTp, reqVars, activeGauge,
                   procVars, histVars>>

\* variant of metricsLoop that returns on a failed query
afterPollError_Return == "done"

\* where metricsLoop goes after a failed query: continue
afterPollError == "tick"

\* a tick whose ValueFromPromQL returns an error: count it, log, continue
PollFail(q) ==
    /\ pollPc[q] = "tick"
    /\ queryErrCount[q] < MaxPollErrors
    /\ \E resp \in Responses(metricValues) : ValueFromPromQL(resp, ctxDone).err # Nil
    /\ queryErrCount' = [queryErrCount EXCEPT ![q] = @ + 1]
    /\ pollPc' = [pollPc EXCEPT ![q] = afterPollError]
    /\ UNCHANGED <<envVars, unitVars, ctlVars, throttleFlags, pollTp, reqVars, activeGauge, inited,
                   ctxDone, queryValGauge, histVars>>

\* a tick whose ValueFromPromQL succeeds with curr: queryValGauge is set
\* under the label q.Name, then updateThrottle up to throttleFlags.Store
PollStore(q) ==
    /\ pollPc[q] = "tick"
    /\ \E resp \in Responses(metricValues) :
          LET res == ValueFromPromQL(resp, ctxDone)
          IN  /\ res.err = Nil
              /\ queryValGauge' = [queryValGauge EXCEPT ![q] = res.val]
              /\ throttleFlags' = Store(throttleFlags, q, throttlePercent(q, res.val))
    /\ pollPc' = [pollPc EXCEPT ![q] = "stored"]
    /\ UNCHANGED <<envVars, unitVars, ctlVars, pollTp, reqVars, activeGauge, inited, ctxDone,
                   queryErrCount, histVars>>

\* updateThrottle: throttleFlags.Range under the map's read lock
PollRange(q) ==
    /\ pollPc[q] = "stored"
    /\ pollTp' = [pollTp EXCEPT ![q] = RangeMax(throttleFlags, DOMAIN throttleFlags)]
    /\ pollPc' = [pollPc EXCEPT ![q] = "ranged"]
    /\ UNCHANGED <<envVars, unitVars, ctlVars, throttleFlags, reqVars, activeGauge,
                   procVars, histVars>>

\* updateThrottle: the critical section of bp.mu
PollUpdate(q) ==
    /\ pollPc[q] = "ranged"
    /\ allowance' = OneMinus(pollTp[q])
    /\ \E conv \in IntOfProduct(cfg.max, allowance') :
          watermark' = pollWatermark(watermark, conv, cfg.min)
    /\ pollPc' = [pollPc EXCEPT ![q] = "tick"]
    /\ pollTp' = [pollTp EXCEPT ![q] = 0]
    /\ UNCHANGED <<envVars, unitVars, active, throttleFlags, reqVars, activeGauge,
                   procVars, histVars>>

\* variant of the goroutine of executeNext without the deferred recover
recovered_None(e) == e

\* what the goroutine of executeNext sends on errc when client.Next ended
\* with e: the deferred recover makes an error of a panic
recovered(e) == IF e = Panicking THEN ErrPanic ELSE e

\* variant of executeNext whose errc is unbuffered: a send needs the
\* Observer in its select
sendReady_Unbuffered(o) == o = "wait"

\* whether the goroutine's send on errc can proceed, the Observer being at
\* o: errc has room for one value and gets one send
sendReady(o) == TRUE

\* ---- the request path of client r
\* what the goroutine running the chain does when a stage returns e to the
\* top of the chain below the Observer: with an Observer, the goroutine of
\* executeNext sends e on errc (recover turns a panic into an error first);
\* without one, the entry's caller gets e (or the panic) itself.
Finish(r, e) ==
    /\ task' = [task EXCEPT ![r] = "sent"]
    /\ IF cfg.observer
       THEN /\ sendReady(obs[r])
            /\ errc' = [errc EXCEPT ![r] = recovered(e)]
            /\ UNCHANGED <<obs, result, status>>
       ELSE /\ obs' = [obs EXCEPT ![r] = "ret"]
            /\ result' = [result EXCEPT ![r] = e]
            /\ status' = [status EXCEPT ![r] = Render(cfg, e)]
            /\ UNCHANGED errc
    /\ UNCHANGED started

\* a stage calls the Next of its client
Forward(r, s) ==
    /\ task' = [task EXCEPT ![r] = ClientOf(cfg, s)]
    /\ started' = [started EXCEPT ![r] = Append(@, NextStage(cfg, s))]
    /\ UNCHANGED <<obs, errc, result, status>>

\* a stage goes on to its own program point pc
Stay(r, pc) ==
    /\ task' = [task EXCEPT ![r] = pc]
    /\ UNCHANGED <<obs, errc, result, status, started>>

\* ServeEntry.ServeHTTP / RoundTripperEntry.RoundTrip calling client.Next;
\* with an Observer: Observer.Next up to the select of executeNext
Arrive(r) ==
    /\ obs[r] = "idle"
    /\ inited
    /\ IF cfg.observer
       THEN /\ activeGauge' = activeGauge + 1
            /\ obs' = [obs EXCEPT ![r] = "wait"]
            /\ task' = [task EXCEPT ![r] = ClientOf(cfg, "observer")]
            /\ started' = [started EXCEPT ![r] = <<"observer", NextStage(cfg, "observer")>>]
       ELSE /\ obs' = [obs EXCEPT ![r] = "call"]
            /\ task' = [task EXCEPT ![r] = EnterStage(cfg, NewFromConfig(cfg, 0))]
            /\ started' = [started EXCEPT ![r] = <<NewFromConfig(cfg, 0)>>]
            /\ UNCHANGED activeGauge
    /\ UNCHANGED <<envVars, unitVars, headers, ctlVars, pollVars, cancelled, errc, result, admitted,
                   released, wokeByCancel, procVars, cancelledDownstream, incs, status>>

\* the request's Context becomes Done: the client went away, or the
\* deadline ServeHTTP set from ClientTimeout passed
Cancel(r) ==
    /\ obs[r] \in {"wait", "call"}
    /\ ~cancelled[r]
    /\ cancelled' = [cancelled EXCEPT ![r] = TRUE]
    /\ cancelledDownstream' =
          [cancelledDownstream EXCEPT ![r] = admitted[r] /\ task[r] = "final"]
    /\ UNCHANGED <<envVars, unitVars, headers, ctlVars, pollVars, obs, task, errc, result, admitted,
                   released, wokeByCancel, activeGauge, procVars, started, incs, status>>

\* Blocker.Next on a request that came with the headers hdr
BlockerNext(r) ==
    /\ task[r] = "blocker"
    /\ \E hdr \in sentHeaders :
          /\ headers' = [headers EXCEPT ![r] = hdr]
          /\ LET errs == BlockerErrs(NewBlocker(cfg.patterns), hdr)
             IN  IF errs # {}
                 THEN \E e \in errs : Finish(r, e)
                 ELSE Forward(r, "blocker")
    /\ UNCHANGED <<envVars, unitVars, ctlVars, pollVars, cancelled, admitted, released,
                   wokeByCancel, activeGauge, procVars, cancelledDownstream, incs>>

\* Jitterer.Next: getDelay, then the start of sleep
JittererNext(r) ==
    /\ task[r] = "jitter"
    /\ \E delay \in {"error", "zero", "positive"} :
          CASE delay = "error" -> Finish(r, ErrParse)
            [] delay = "zero" -> Forward(r, "jitter")
            [] OTHER -> Stay(r, "sleep")
    /\ UNCHANGED <<envVars, unitVars, headers, ctlVars, pollVars, cancelled, admitted, released,
                   wokeByCancel, activeGauge, procVars, cancelledDownstream, incs>>

\* Jitterer.sleep: the select returns, through time.After or through
\* ctx.Done; Jitterer.Next goes on
JitterWake(r) ==
    /\ task[r] = "sleep"
    /\ \E byCancel \in {FALSE, cancelled[r]} :
          wokeByCancel' = [wokeByCancel EXCEPT ![r] = byCancel]
    /\ Forward(r, "jitter")
    /\ UNCHANGED <<envVars, unitVars, headers, ctlVars, pollVars, cancelled, admitted, released,
                   activeGauge, procVars, cancelledDownstream, incs>>

\* Backpressure.Next with lowCostBypass: LowCostRequest
BpClassify(r) ==
    /\ task[r] = "bp"
    /\ \E cost \in {"error", "low", "high"} :
          CASE cost = "error" -> Finish(r, ErrCost)
            [] cost = "low" -> Forward(r, "bp")
            [] OTHER -> Stay(r, "check")
    /\ UNCHANGED <<envVars, unitVars, headers, ctlVars, pollVars, cancelled, admitted, released,
                   wokeByCancel, activeGauge, procVars, cancelledDownstream, incs>>

\* Backpressure.check, the critical section of bp.mu
BpCheck(r) ==
    /\ task[r] = "check"
    /\ IF checkDenied(active, watermark)
       THEN /\ Finish(r, ErrBackpressureBackoff)
            /\ UNCHANGED <<active, admitted>>
       ELSE /\ active' = admitActive(active)
            /\ admitted' = [admitted EXCEPT ![r] = TRUE]
            /\ Forward(r, "bp")
    /\ UNCHANGED <<envVars, unitVars, headers, watermark, allowance, pollVars, cancelled, released,
                   wokeByCancel, activeGauge, procVars, cancelledDownstream, incs>>

\* variant of Backpressure.Next that releases only after a nil result
releaseRuns_OnSuccess(adm, out) == adm /\ out = Nil

\* variant of Backpressure.Next that calls release after client.Next
\* instead of deferring it: a panic skips it
releaseRuns_NotDeferred(adm, out) == adm /\ out # Panicking

\* variant of Backpressure.Next that defers release before the bypass
releaseRuns_Always(adm, out) == TRUE

\* whether the deferred bp.release runs when client.Next ends with out
releaseRuns(adm, out) == adm

\* the exit's Next returns (or panics); on the way up, the deferred
\* bp.release of an admitted request runs as a critical section of bp.mu
FinalReturn(r) ==
    /\ task[r] = "final"
    /\ \E out \in {Nil, ErrDownstream, Panicking} :
          /\ Finish(r, out)
          /\ IF releaseRuns(admitted[r], out)
             THEN /\ active' = releaseActive(active)
                  /\ \E conv \in IntOfProduct(cfg.max, allowance) :
                        watermark' =
                           constrainWatermark(releaseWatermark(watermark), conv, cfg.min)
                  /\ released' = [released EXCEPT ![r] = released[r] + 1]
             ELSE UNCHANGED <<active, watermark, released>>
    /\ UNCHANGED <<envVars, unitVars, headers, allowance, pollVars, cancelled, admitted, wokeByCancel,
                   activeGauge, procVars, cancelledDownstream, incs>>

\* variant of executeNext that only receives from errc
selectReady_ErrcOnly(sent, done) == IF sent THEN {"errc"} ELSE {}

\* which cases of the select of executeNext are ready
selectReady(sent, done) ==
    (IF sent THEN {"errc"} ELSE {}) \cup (IF done THEN {"ctx"} ELSE {})

\* variant of Observer.Next that decrements after a downstream result only
gaugeDecrements_OnResult(how) == how = "errc"

\* variant of Observer.Next that leaves the gauge alone when the request
\* was cancelled
gaugeDecrements_NotOnCancel(how) == how # "ctx"

\* whether Observer.Next decrements activeGauge on its way out
gaugeDecrements(how) == TRUE

\* variant of executeNext that wraps the error it received
executeNextErr_Wrapped(how, sent) ==
    IF how = "errc"
    THEN (IF sent = Nil THEN Nil ELSE PlainErr("observer"))
    ELSE ErrCtx

\* what executeNext returns: the value received from errc, or ctx.Err()
executeNextErr(how, sent) == IF how = "errc" THEN sent ELSE ErrCtx

\* Observer.executeNext's select completes, and Observer.Next returns
ObsSelect(r) ==
    /\ obs[r] = "wait"
    /\ \E how \in selectReady(task[r] = "sent", cancelled[r]) :
          /\ result' = [result EXCEPT ![r] = executeNextErr(how, errc[r])]
          /\ activeGauge' = IF gaugeDecrements(how) THEN activeGauge - 1 ELSE activeGauge
    /\ incs' = [incs EXCEPT ![r] = ObserverIncs(result'[r])]
    /\ status' = [status EXCEPT ![r] = Render(cfg, result'[r])]
    /\ obs' = [obs EXCEPT ![r] = "ret"]
    /\ UNCHANGED <<envVars, unitVars, headers, ctlVars, pollVars, task, cancelled, errc, admitted,
                   released, wokeByCancel, procVars, cancelledDownstream, started>>

\* the client is done with the request (both goroutines have ended) and
\* will issue its next one
NextRequest(r) ==
    /\ obs[r] = "ret"
    /\ task[r] = "sent"
    /\ obs' = [obs EXCEPT ![r] = "idle"]
    /\ task' = [task EXCEPT ![r] = "none"]
    /\ cancelled' = [cancelled EXCEPT ![r] = FALSE]
    /\ errc' = [errc EXCEPT ![r] = NoValue]
    /\ result' = [result EXCEPT ![r] = NoValue]
    /\ admitted' = [admitted EXCEPT ![r] = FALSE]
    /\ released' = [released EXCEPT ![r] = 0]
    /\ wokeByCancel' = [wokeByCancel EXCEPT ![r] = FALSE]
    /\ cancelledDownstream' = [cancelledDownstream EXCEPT ![r] = FALSE]
    /\ started' = [started EXCEPT ![r] = <<>>]
    /\ incs' = [incs EXCEPT ![r] = NoIncs]
    /\ status' = [status EXCEPT ![r] = NoStatus]
    /\ headers' = [headers EXCEPT ![r] = NoHeaders]
    /\ UNCHANGED <<envVars, unitVars, ctlVars, pollVars, activeGauge, procVars>>

\* ------------------------------------------------------------ specifications
\* the windows a configuration that passes Validate can have
Windows == {w \in (1 .. MaxWindow) \X (1 .. MaxWindow) : w[1] <= w[2]}

\* Backpressure alone in front of the exit, with every window
CtlConfigs ==
    {[min |-> w[1], max |-> w[2], lowCostBypass |-> b, queries |-> Queries,
      observer |-> FALSE, blocker |-> FALSE, jitter |-> FALSE,
      backpressure |-> TRUE, form |-> "server", patterns |-> <<>>] :
        w \in Windows, b \in BOOLEAN}

\* the whole chain, every stage enabled, with one window
ChainConfigs ==
    {[min |-> 1, max |-> MaxWindow - 1, lowCostBypass |-> TRUE, queries |-> Queries,
      observer |-> TRUE, blocker |-> TRUE, jitter |-> TRUE,
      backpressure |-> TRUE, form |-> "server",
      patterns |-> <<[header |-> "X-User-Agent", regex |-> ReService]>>]}

\* the headers of the requests in the runs of the whole chain
ChainHeaders ==
    {[NoHeaders EXCEPT !["X-User-Agent"] = ua] : ua \in {<<"safe-user">>, <<"service1">>}}

\* the Blocker alone in front of the exit, with every list of patterns
BlockerConfigs ==
    {[min |-> 1, max |-> 1, lowCostBypass |-> FALSE, queries |-> {},
      observer |-> FALSE, blocker |-> TRUE, jitter |-> FALSE,
      backpressure |-> FALSE, form |-> "server", patterns |-> l] :
        l \in BlockPatterns(MaxPatterns)}

InitCtl == InitWith(CtlConfigs, Samples, {NoHeaders})

NextCtl ==
    \/ EntryInit
    \/ \E q \in cfg.queries : PollStore(q)
    \/ \E q \in cfg.queries : PollRange(q)
    \/ \E q \in cfg.queries : PollUpdate(q)
    \/ \E r \in Reqs : Arrive(r)
    \/ \E r \in Reqs : BpClassify(r)
    \/ \E r \in Reqs : BpCheck(r)
    \/ \E r \in Reqs : FinalReturn(r)
    \/ \E r \in Reqs : NextRequest(r)

SpecCtl == InitCtl /\ [][NextCtl]_vars

Init == InitWith(ChainConfigs, ChainSamples, ChainHeaders)

Next ==
    \/ EntryInit
    \/ \E q \in cfg.queries : PollStore(q)
    \/ \E q \in cfg.queries : PollRange(q)
    \/ \E q \in cfg.queries : PollUpdate(q)
    \/ \E r \in Reqs : Arrive(r)
    \/ \E r \in Reqs : Cancel(r)
    \/ \E r \in Reqs : BlockerNext(r)
    \/ \E r \in Reqs : JittererNext(r)
    \/ \E r \in Reqs : JitterWake(r)
    \/ \E r \in Reqs : BpClassify(r)
    \/ \E r \in Reqs : BpCheck(r)
    \/ \E r \in Reqs : FinalReturn(r)
    \/ \E r \in Reqs : ObsSelect(r)
    \/ \E r \in Reqs : NextRequest(r)

Spec == Init /\ [][Next]_vars

\* the scheduler runs a goroutine whose select has a ready case
FairSpec == Spec /\ \A r \in Reqs : WF_vars(ObsSelect(r))

\* Backpressure alone, every window, no bypass
PollConfigs == {c \in CtlConfigs : ~c.lowCostBypass}

InitPoll == InitWith(PollConfigs, Samples, {NoHeaders})

\* the pollers with their failures and their end, next to the requests
NextPoll ==
    \/ EntryInit
    \/ CtxCancel
    \/ \E q \in cfg.queries : PollStore(q)
    \/ \E q \in cfg.queries : PollRange(q)
    \/ \E q \in cfg.queries : PollUpdate(q)
    \/ \E q \in cfg.queries : PollFail(q)
    \/ \E q \in cfg.queries : PollStop(q)
    \/ \E r \in Reqs : Arrive(r)
    \/ \E r \in Reqs : BpCheck(r)
    \/ \E r \in Reqs : FinalReturn(r)
    \/ \E r \in Reqs : NextRequest(r)

SpecPoll == InitPoll /\ [][NextPoll]_vars

\* Backpressure with two queries and the widest window
LoopConfigs ==
    {[min |-> 1, max |-> MaxWindow, lowCostBypass |-> FALSE, queries |-> LoopQueries,
      observer |-> FALSE, blocker |-> FALSE, jitter |-> FALSE,
      backpressure |-> TRUE, form |-> "server", patterns |-> <<>>]}

InitLoop == InitWith(LoopConfigs, ChainSamples, {NoHeaders})

\* Init and the goroutines of metricsLoop, from their start to their end
NextLoop ==
    \/ EntryInit
    \/ CtxCancel
    \/ \E q \in cfg.queries : PollStore(q)
    \/ \E q \in cfg.queries : PollRange(q)
    \/ \E q \in cfg.queries : PollUpdate(q)
    \/ \E q \in cfg.queries : PollFail(q)
    \/ \E q \in cfg.queries : PollStop(q)

SpecLoop == InitLoop /\ [][NextLoop]_vars

\* the requests next to the goroutines of two queries
SpecFrame == InitLoop /\ [][NextPoll]_vars

\* the scheduler runs every goroutine that can take a step, and a select
\* whose ctx.Done case stays ready ends up taking it
FairLoop ==
    /\ SpecLoop
    /\ \A q \in LoopQueries :
          WF_vars(PollRange(q)) /\ WF_vars(PollUpdate(q)) /\ WF_vars(PollStop(q))

\* every choice of enabled stages, in server form and in transport form
OrderConfigs ==
    {[min |-> 1, max |-> 1, lowCostBypass |-> bp, queries |-> IF bp THEN Queries ELSE {},
      observer |-> ob, blocker |-> bl, jitter |-> ji, backpressure |-> bp, form |-> f,
      patterns |-> <<[header |-> "X-User-Agent", regex |-> ReService]>>] :
        ob \in BOOLEAN, bl \in BOOLEAN, ji \in BOOLEAN, bp \in BOOLEAN,
        f \in {"server", "transport"}}

InitOrder == InitWith(OrderConfigs, ChainSamples, ChainHeaders)

\* the requests, the monitoring endpoint being silent
NextOrder ==
    \/ EntryInit
    \/ \E r \in Reqs : Arrive(r)
    \/ \E r \in Reqs : Cancel(r)
    \/ \E r \in Reqs : BlockerNext(r)
    \/ \E r \in Reqs : JittererNext(r)
    \/ \E r \in Reqs : JitterWake(r)
    \/ \E r \in Reqs : BpClassify(r)
    \/ \E r \in Reqs : BpCheck(r)
    \/ \E r \in Reqs : FinalReturn(r)
    \/ \E r \in Reqs : ObsSelect(r)
    \/ \E r \in Reqs : NextRequest(r)

SpecOrder == InitOrder /\ [][NextOrder]_vars

InitBlocker == InitWith(BlockerConfigs, {}, Headers)

NextBlocker ==
    \/ EntryInit
    \/ \E r \in Reqs : Arrive(r)
    \/ \E r \in Reqs : BlockerNext(r)
    \/ \E r \in Reqs : FinalReturn(r)
    \/ \E r \in Reqs : NextRequest(r)

SpecBlocker == InitBlocker /\ [][NextBlocker]_vars

\* ---- steady state: more clients than the minimum window, one request each
\* number of clients that fire one request each, at once
NumSteady == 3
SteadyReqs == 1 .. NumSteady
\* the minimum window of the steady-state scenario
SteadyMin == 2

\* Backpressure alone, window [SteadyMin, MaxWindow], no bypass
SteadyConfigs ==
    {[min |-> SteadyMin, max |-> MaxWindow, lowCostBypass |-> FALSE,
      queries |-> Queries, observer |-> FALSE, blocker |-> FALSE, jitter |-> FALSE,
      backpressure |-> TRUE, form |-> "server", patterns |-> <<>>]}

\* the monitoring endpoint stays at the warning threshold: no pressure
SteadySamples == {QHot.warn}

InitSteady ==
    /\ ChainFor(SteadyReqs, SteadyConfigs, SteadySamples, {NoHeaders})
    /\ arg = NoArg
    /\ ret = NoRet

NextSteady ==
    \/ EntryInit
    \/ \E q \in cfg.queries : PollStore(q)
    \/ \E q \in cfg.queries : PollRange(q)
    \/ \E q \in cfg.queries : PollUpdate(q)
    \/ \E r \in SteadyReqs : Arrive(r)
    \/ \E r \in SteadyReqs : BpCheck(r)
    \/ \E r \in SteadyReqs : FinalReturn(r)

SpecSteady == InitSteady /\ [][NextSteady]_vars

\* ---------------------------------------------------------------- validation
\* largest congestion window a configuration is validated with
MaxValWindow == 2
\* largest jitter delay, in nanoseconds, a configuration is drawn with
MaxDelay == 4

\* float64 comparisons: every comparison with NaN is false
FLt(a, b) == a # NaN /\ b # NaN /\ a < b
FLe(a, b) == a # NaN /\ b # NaN /\ a <= b

\* the errors of a validation are named by the variable that holds them, or
\* by their text; Valid is the nil error
Valid == "nil"

\* strings are sequences of characters
SingleQuote == "'"
DoubleQuote == "\""

wrappedInQuotes(query) ==
    IF Len(query) < 2 THEN FALSE
    ELSE LET firstChar == query[1]
             lastChar == query[Len(query)]
         IN  \/ firstChar = SingleQuote /\ lastChar = SingleQuote
             \/ firstChar = DoubleQuote /\ lastChar = DoubleQuote

\* variant of BackpressureQuery.Validate that accepts emergency = warn
QueryValidate_EqualAccepted(q) ==
    IF q.Query = <<>> THEN "empty backpressure query"
    ELSE IF wrappedInQuotes(q.Query) THEN "ErrExtraQueryQuotes"
    ELSE IF FLt(q.ThrottlingCurve, 0) THEN "ErrNegativeThrottleCurve"
    ELSE IF FLt(q.WarningThreshold, 0) \/ FLt(q.EmergencyThreshold, 0)
         THEN "ErrNegativeQueryThresholds"
    ELSE IF FLt(q.EmergencyThreshold, q.WarningThreshold)
         THEN "ErrEmergencyBelowWarnThreshold"
    ELSE Valid

\* BackpressureQuery.Validate
QueryValidate(q) ==
    IF q.Query = <<>> THEN "empty backpressure query"
    ELSE IF wrappedInQuotes(q.Query) THEN "ErrExtraQueryQuotes"
    ELSE IF FLt(q.ThrottlingCurve, 0) THEN "ErrNegativeThrottleCurve"
    ELSE IF FLt(q.WarningThreshold, 0) \/ FLt(q.EmergencyThreshold, 0)
         THEN "ErrNegativeQueryThresholds"
    ELSE IF FLe(q.EmergencyThreshold, q.WarningThreshold)
         THEN "ErrEmergencyBelowWarnThreshold"
    ELSE Valid

\* a loop that returns the first error: errs[i] is the error of element i
FirstError(errs) ==
    LET bad == {i \in 1 .. Len(errs) : errs[i] # Valid}
    IN  IF bad = {} THEN Valid
        ELSE errs[CHOOSE i \in bad : \A j \in bad : i <= j]

\* the loop over the queries of BackpressureConfig.Validate
QueriesValidate(qs) == FirstError([i \in 1 .. Len(qs) |-> QueryValidate(qs[i])])

\* BackpressureConfig.Validate (url.Parse accepts the monitoring URLs used)
BackpressureValidate(c) ==
    IF ~c.EnableBackpressure THEN Valid
    ELSE IF Len(c.BackpressureQueries) = 0 THEN "ErrBackpressureQueryRequired"
    ELSE IF QueriesValidate(c.BackpressureQueries) # Valid
         THEN QueriesValidate(c.BackpressureQueries)
    ELSE IF c.CongestionWindowMin < 1 THEN "ErrCongestionWindowMinBelowOne"
    ELSE IF c.CongestionWindowMax < c.CongestionWindowMin
         THEN "ErrCongestionWindowMaxBelowMin"
    ELSE Valid

\* strings.SplitN(pattern, "=", 2)
SplitN2(pattern) ==
    LET eqs == {i \in 1 .. Len(pattern) : pattern[i] = "="}
    IN  IF eqs = {} THEN <<pattern>>
        ELSE LET i == CHOOSE k \in eqs : \A j \in eqs : k <= j
             IN  <<SubSeq(pattern, 1, i - 1), SubSeq(pattern, i + 1, Len(pattern))>>

\* regexp.Compile succeeds: of the expressions drawn, the ones that open a
\* group and do not close it are the ones rejected
Compiles(expr) ==
    Cardinality({i \in 1 .. Len(expr) : expr[i] = "("})
        = Cardinality({i \in 1 .. Len(expr) : expr[i] = ")"})

\* the body of the loop of ValidateBlockPatterns
PatternValidate(pattern) ==
    LET patternParts == SplitN2(pattern)
    IN  IF Len(patternParts) # 2 THEN "pattern did not match <header>=<regex>"
        ELSE IF ~Compiles(patternParts[2]) THEN "error parsing regexp"
        ELSE IF patternParts[1] = <<>> THEN "header is empty for pattern"
        ELSE Valid

\* ValidateBlockPatterns, BlockerConfig.Validate
ValidateBlockPatterns(patterns) ==
    FirstError([i \in 1 .. Len(patterns) |-> PatternValidate(patterns[i])])

\* Config.Validate: jitter is enabled without a delay
JitterValidate(c) == c.EnableJitter /\ c.JitterDelay = 0

\* Config.Validate: the errors joined by errors.Join, <<>> for nil
Validate(c) ==
    LET bp == IF c.EnableBackpressure /\ BackpressureValidate(c) # Valid
              THEN <<BackpressureValidate(c)>> ELSE <<>>
        bl == IF c.EnableBlocker /\ ValidateBlockPatterns(c.BlockPatterns) # Valid
              THEN <<ValidateBlockPatterns(c.BlockPatterns)>> ELSE <<>>
        ji == IF JitterValidate(c) THEN <<"ErrJitterDelayRequired">> ELSE <<>>
    IN  bp \o bl \o ji

\* a Config with every feature off
ZeroConfig ==
    [EnableBackpressure |-> FALSE, BackpressureQueries |-> <<>>,
     CongestionWindowMin |-> 0, CongestionWindowMax |-> 0,
     EnableBlocker |-> FALSE, BlockPatterns |-> <<>>,
     EnableJitter |-> FALSE, JitterDelay |-> 0, EnableCriticality |-> FALSE]

\* ---- Config.Validate on its own
\* the lists of queries a configuration is validated with: none, one, and
\* one behind a query that BackpressureQuery.Validate accepts
ValidateQueries ==
    LET QValid == [Query |-> <<"u", "p">>, ThrottlingCurve |-> 0,
                   WarningThreshold |-> 0, EmergencyThreshold |-> 5]
        qs == [Query : {<<>>, <<"u", "p">>, <<"'", "u", "p", "'">>},
               ThrottlingCurve : {0 - 1, 0, 4},
               WarningThreshold : {0 - 1, 0, 5, NaN},
               EmergencyThreshold : {0 - 1, 0, 5, NaN}]
    IN  {<<>>} \cup {<<q>> : q \in qs} \cup {<<QValid, q>> : q \in qs}

\* the lists of block patterns a configuration is validated with
ValidatePatterns ==
    {<<>>, <<<<"h", "=", "b">>>>, <<<<"h", "b">>>>, <<<<"=", "b">>>>,
     <<<<"h", "=", "(">>>>}

ValidateConfigs ==
    [EnableBackpressure : BOOLEAN, BackpressureQueries : ValidateQueries,
     CongestionWindowMin : 0 .. MaxValWindow, CongestionWindowMax : 0 .. MaxValWindow,
     EnableBlocker : BOOLEAN, BlockPatterns : ValidatePatterns,
     EnableJitter : BOOLEAN, JitterDelay : {0 - 1, 0, 1}, EnableCriticality : {FALSE}]

InitValidate ==
    /\ ChainAtRest({CHOOSE c \in BlockerConfigs : c.patterns = <<>>}, {}, {NoHeaders})
    /\ arg \in ValidateConfigs
    /\ ret = [pc |-> "call", errs |-> <<>>]

\* cfg.Validate()
RunValidate ==
    /\ ret.pc = "call"
    /\ ret' = [pc |-> "done", errs |-> Validate(arg)]
    /\ UNCHANGED <<chainVars, arg>>

SpecValidate == InitValidate /\ [][RunValidate]_vars

\* ---- throttlePercent on its own
\* a query that passes Validate and two samples
InitThrottle ==
    /\ ChainAtRest({CHOOSE c \in BlockerConfigs : c.patterns = <<>>}, {}, {NoHeaders})
    /\ arg \in [q : {q \in [name : {"hot"}, warn : {0, 10}, emergency : {20, 100},
                                curve : {0, 1, DefaultThrottleCurve}] :
                         q.warn < q.emergency},
                 v : {0, 5, 10, 15, 20, 30, 55, 90, 100, 120},
                 w : {0, 5, 10, 15, 20, 30, 55, 90, 100, 120}]
    /\ ret = [pc |-> "call", tv |-> 0, tw |-> 0]

\* q.throttlePercent(v) and q.throttlePercent(w)
RunThrottle ==
    /\ ret.pc = "call"
    /\ ret' = [pc |-> "done", tv |-> throttlePercent(arg.q, arg.v),
                tw |-> throttlePercent(arg.q, arg.w)]
    /\ UNCHANGED <<chainVars, arg>>

SpecThrottle == InitThrottle /\ [][RunThrottle]_vars

\* ------------------------------------------------------------------ Jitterer
NoJitter == 0
HeaderCriticality == "X-Request-Criticality"
HeaderCanWait == "X-Can-Wait"
CriticalityCriticalPlus == "CRITICAL_PLUS"
CriticalityCritical == "CRITICAL"
CriticalityDefault == CriticalityCritical

\* HeaderDefaults[key], the zero value for a key the map does not have
HeaderDefaults(key) == IF key = HeaderCriticality THEN CriticalityDefault ELSE ""

ParseHeaderKey(hdr, key) ==
    LET vals == hdr[key]
    IN  IF Len(vals) = 0 \/ vals[1] = "" THEN HeaderDefaults(key) ELSE vals[1]

\* time.ParseDuration on the header values drawn: a signed decimal number
\* with a unit, or "0"; the duration in nanoseconds
ParseDuration(s) ==
    CASE s = "0"    -> [d |-> 0, err |-> Nil]
      [] s = "1ns"  -> [d |-> 1, err |-> Nil]
      [] s = "3ns"  -> [d |-> 3, err |-> Nil]
      [] s = "-2ns" -> [d |-> 0 - 2, err |-> Nil]
      [] s = "9ns"  -> [d |-> 9, err |-> Nil]
      [] OTHER      -> [d |-> 0, err |-> ErrParse]

\* variant of getDelay that lets X-Can-Wait replace the configured delay
getDelay_HeaderWins(j, hdr) ==
    IF j.criticality /\ ParseHeaderKey(hdr, HeaderCriticality) = CriticalityCriticalPlus
    THEN [delay |-> NoJitter, err |-> Nil]
    ELSE LET delay == j.delay
             canWait == ParseHeaderKey(hdr, HeaderCanWait)
             parsed == ParseDuration(canWait)
         IN  IF canWait = "" THEN [delay |-> delay, err |-> Nil]
             ELSE IF parsed.err # Nil THEN [delay |-> 0, err |-> parsed.err]
             ELSE [delay |-> parsed.d, err |-> Nil]

\* Jitterer.getDelay
getDelay(j, hdr) ==
    IF j.criticality /\ ParseHeaderKey(hdr, HeaderCriticality) = CriticalityCriticalPlus
    THEN [delay |-> NoJitter, err |-> Nil]
    ELSE LET delay == j.delay
             canWait == ParseHeaderKey(hdr, HeaderCanWait)
             parsed == ParseDuration(canWait)
         IN  IF canWait = "" THEN [delay |-> delay, err |-> Nil]
             ELSE IF parsed.err # Nil THEN [delay |-> 0, err |-> parsed.err]
             ELSE [delay |-> Max2(parsed.d, delay), err |-> Nil]

\* NewJitterer as NewFromConfig calls it
NewJitterer(c) == [delay |-> c.JitterDelay, criticality |-> c.EnableCriticality]

\* the configurations with a Jitterer that Config.Validate accepts
JitterConfigs ==
    {c \in {[ZeroConfig EXCEPT !.EnableJitter = TRUE, !.JitterDelay = d,
                               !.EnableCriticality = b] :
               d \in (0 - MaxDelay) .. MaxDelay, b \in BOOLEAN} :
        Validate(c) = <<>>}

\* the X-Request-Criticality and X-Can-Wait headers of a request
JitterHeaders ==
    [{HeaderCriticality} ->
        {<<>>, <<"">>, <<CriticalityCritical>>, <<CriticalityCriticalPlus>>}]
    \X
    [{HeaderCanWait} ->
        {<<>>, <<"", "3ns">>, <<"0">>, <<"1ns">>, <<"3ns">>, <<"9ns">>,
         <<"-2ns">>, <<"invalid">>}]

\* the duration no timer was started with
NoTimer == 0 - 1

InitJitter ==
    /\ ChainAtRest({CHOOSE c \in BlockerConfigs : c.patterns = <<>>}, {}, {NoHeaders})
    /\ arg \in {[cfg |-> c, hdr |-> h[1] @@ h[2]] : c \in JitterConfigs, h \in JitterHeaders}
    /\ ret = [pc |-> "getDelay", delay |-> 0, err |-> Nil, jitter |-> NoTimer,
              nextCalled |-> FALSE]

\* Jitterer.Next: getDelay, and the return of its error
JitGetDelay ==
    /\ ret.pc = "getDelay"
    /\ LET got == getDelay(NewJitterer(arg.cfg), arg.hdr)
       IN  ret' = [ret EXCEPT !.pc = IF got.err # Nil THEN "done" ELSE "sleep",
                              !.delay = got.delay, !.err = got.err]
    /\ UNCHANGED <<chainVars, arg>>

\* Jitterer.sleep with a context that is not cancelled: no timer for a zero
\* delay; rand.Intn panics for an argument <= 0; otherwise the timer runs for
\* the number drawn
JitSleep ==
    /\ ret.pc = "sleep"
    /\ IF ret.delay = 0 THEN ret' = [ret EXCEPT !.pc = "next", !.jitter = 0]
       ELSE IF ret.delay < 0 THEN ret' = [ret EXCEPT !.pc = "panic"]
       ELSE \E jitter \in 0 .. ret.delay - 1 :
               ret' = [ret EXCEPT !.pc = "next", !.jitter = jitter]
    /\ UNCHANGED <<chainVars, arg>>

\* Jitterer.Next: the call of the next stage
JitNext ==
    /\ ret.pc = "next"
    /\ ret' = [ret EXCEPT !.pc = "done", !.nextCalled = TRUE]
    /\ UNCHANGED <<chainVars, arg>>

NextJitter ==
    \/ JitGetDelay
    \/ JitSleep
    \/ JitNext

SpecJitter == InitJitter /\ [][NextJitter]_vars

\* ---------------------------------------------------------------- DupRequest
\* longest request body, in bytes
MaxBody == 2

\* a Request.Body of nil
NilBody == [bytes |-> <<>>, pos |-> 0 - 1, fails |-> FALSE]
\* bytes.NewReader(b) / bytes.NewBuffer(b) behind io.NopCloser: unread
NewReader(b) == [bytes |-> b, pos |-> 0, fails |-> FALSE]
\* io.ReadAll: what is left of the reader, which is then at its end; or the
\* reader's error
ReadAll(rd) ==
    IF rd.fails THEN [data |-> <<>>, err |-> PlainErr("read"), rd |-> rd]
    ELSE [data |-> SubSeq(rd.bytes, rd.pos + 1, Len(rd.bytes)), err |-> Nil,
          rd |-> [rd EXCEPT !.pos = Len(rd.bytes)]]

\* variant of DupRequest that reads req.Body and leaves it at its end
DupRequest_NoRestore(req) ==
    IF req.Body = NilBody THEN [req |-> req, clone |-> req, err |-> Nil]
    ELSE LET got == ReadAll(req.Body)
         IN  IF got.err # Nil
             THEN [req |-> [req EXCEPT !.Body = got.rd], clone |-> req, err |-> got.err]
             ELSE [req |-> [req EXCEPT !.Body = got.rd],
                   clone |-> [req EXCEPT !.Body = NewReader(got.data)], err |-> Nil]

\* DupRequest: the request as it is left, the clone, the error
DupRequest(req) ==
    IF req.Body = NilBody THEN [req |-> req, clone |-> req, err |-> Nil]
    ELSE LET got == ReadAll(req.Body)
         IN  IF got.err # Nil
             THEN [req |-> [req EXCEPT !.Body = got.rd], clone |-> req, err |-> got.err]
             ELSE [req |-> [req EXCEPT !.Body = NewReader(got.data)],
                   clone |-> [req EXCEPT !.Body = NewReader(got.data)], err |-> Nil]

\* Request.ParseForm: the body of a POST with a form content type is read
ParseForm(req) ==
    IF req.Method = "POST" /\ req.Body # NilBody
       /\ req.Header["Content-Type"] = <<"application/x-www-form-urlencoded">>
    THEN [req EXCEPT !.Body = ReadAll(req.Body).rd]
    ELSE req

\* the requests that enter the chain, with their bodies unread
DupRequests ==
    {[Method |-> m, Path |-> p, Header |-> h,
      Body |-> IF b = <<"nil">> THEN NilBody ELSE [NewReader(b) EXCEPT !.fails = f]] :
        m \in {"GET", "POST"},
        p \in {"/api/v1/query", "/api/v1/query_range", "/metrics"},
        h \in [{"Content-Type"} -> {<<>>, <<"application/x-www-form-urlencoded">>}],
        b \in {<<"nil">>} \cup UNION {[1 .. n -> {"q", "="}] : n \in 0 .. MaxBody},
        f \in BOOLEAN}

InitDup ==
    /\ ChainAtRest({CHOOSE c \in BlockerConfigs : c.patterns = <<>>}, {}, {NoHeaders})
    /\ arg \in [req : DupRequests, lowCostBypass : BOOLEAN]
    /\ ret = [pc |-> "bp", req |-> arg.req, clone |-> arg.req, err |-> Nil]

\* Backpressure.Next up to queryFromRequest: DupRequest, and the test of the
\* path
DupEnter ==
    /\ ret.pc = "bp"
    /\ IF ~arg.lowCostBypass THEN ret' = [ret EXCEPT !.pc = "final"]
       ELSE LET dup == DupRequest(ret.req)
            IN  ret' = [pc |-> IF dup.err # Nil THEN "done"
                               ELSE IF dup.clone.Path \in {"/api/v1/query",
                                                           "/api/v1/query_range"}
                                    THEN "form" ELSE "done",
                        req |-> dup.req, clone |-> dup.clone,
                        err |-> IF dup.err # Nil THEN dup.err
                                ELSE IF dup.clone.Path \in {"/api/v1/query",
                                                            "/api/v1/query_range"}
                                     THEN Nil ELSE ErrCost]
    /\ UNCHANGED <<chainVars, arg>>

\* queryFromInstant / queryFromRange on the clone, and the rest of QueryCost:
\* an error, or the request goes on (through the bypass or through check)
DupParse ==
    /\ ret.pc = "form"
    /\ \E ok \in BOOLEAN :
          ret' = [ret EXCEPT !.clone = ParseForm(ret.clone),
                             !.pc = IF ok THEN "final" ELSE "done",
                             !.err = IF ok THEN Nil ELSE ErrCost]
    /\ UNCHANGED <<chainVars, arg>>

\* the exit's Next hands rr.Request() to the final handler
DupFinal ==
    /\ ret.pc = "final"
    /\ ret' = [ret EXCEPT !.pc = "served"]
    /\ UNCHANGED <<chainVars, arg>>

NextDup ==
    \/ DupEnter
    \/ DupParse
    \/ DupFinal

SpecDup == InitDup /\ [][NextDup]_vars

\* ---------------------------------------------------------------- QueryCost
\* times are minutes since the epoch; durations are minutes
ObjectStorageThreshold == 100
\* LookbackDelta of the query options
LookbackDelta == 5
\* time.Hour * 2
TwoHours == 120
\* what time.Now() returns when parseRequestArguments reads the clock
ParseClock == 1000

\* parseTime on the parameters drawn: <<"unix", n>> is the decimal text of
\* the time n, anything else does not parse
parseTime(s) ==
    IF Len(s) = 2 /\ s[1] = "unix" THEN [t |-> s[2], err |-> Nil]
    ELSE [t |-> 0, err |-> PlainErr("cannot parse to a valid timestamp")]

\* parseRequestArguments with parseDefaultTime and parseDefaultDuration:
\* an empty parameter is the clock (the default step for step)
parseRequestArguments(query, start, end, step, clock) ==
    LET startTime == IF start # <<>> THEN parseTime(start) ELSE [t |-> clock, err |-> Nil]
        endTime == IF end # <<>> THEN parseTime(end) ELSE [t |-> clock, err |-> Nil]
        stepErr == IF step \in {"", "53"} THEN Nil
                   ELSE PlainErr("cannot parse to a valid duration")
    IN  IF startTime.err # Nil THEN [err |-> startTime.err]
        ELSE IF endTime.err # Nil THEN [err |-> endTime.err]
        ELSE IF stepErr # Nil THEN [err |-> stepErr]
        ELSE [err |-> Nil, query |-> query, start |-> startTime.t, end |-> endTime.t]

\* MinMaxTime of the plan of an expression with one selector: a vector
\* selector reaches back by the lookback, a matrix selector by its range,
\* both shifted by the offset
MinMaxTime(expr, start) ==
    start - expr.offset - (IF expr.range = 0 THEN LookbackDelta ELSE expr.range)

\* variant of QueryCost that counts a query reaching back exactly two hours
\* as costly
QueryCost_Inclusive(q, clock) ==
    IF q.query.src = "" THEN [cost |-> 0, err |-> PlainErr("parse error")]
    ELSE IF MinMaxTime(q.query, q.start) <= clock - TwoHours
         THEN [cost |-> ObjectStorageThreshold, err |-> Nil]
         ELSE [cost |-> 0, err |-> Nil]

\* QueryCost after queryFromRequest, the clock being read again
QueryCost(q, clock) ==
    IF q.query.src = "" THEN [cost |-> 0, err |-> PlainErr("parse error")]
    ELSE IF MinMaxTime(q.query, q.start) < clock - TwoHours
         THEN [cost |-> ObjectStorageThreshold, err |-> Nil]
         ELSE [cost |-> 0, err |-> Nil]

\* requests on the query paths: the form parameters, the query being an
\* expression with one selector
InitCost ==
    /\ ChainAtRest({CHOOSE c \in BlockerConfigs : c.patterns = <<>>}, {}, {NoHeaders})
    /\ arg \in [path : {"/api/v1/query", "/api/v1/query_range"},
                query : [src : {"", "sum(rate(errors[r] offset o))"},
                         range : {0, 60, TwoHours - LookbackDelta, TwoHours, 2 * TwoHours},
                         offset : {0, LookbackDelta}],
                start : {<<>>, <<"invalid">>} \cup
                        {<<"unix", ParseClock - ago>> :
                            ago \in {0, 2, TwoHours - LookbackDelta, TwoHours, 5 * TwoHours}},
                end : {<<>>, <<"invalid">>},
                step : {"", "53", "fifty"}]
    /\ ret = [pc |-> "parse", q |-> [err |-> Nil], clock |-> ParseClock, cost |-> 0,
              low |-> FALSE, err |-> Nil]

\* queryFromRequest: queryFromInstant passes the time parameter as start and
\* as end, queryFromRange start, end and step
CostParse ==
    /\ ret.pc = "parse"
    /\ LET q == IF arg.path = "/api/v1/query"
                THEN parseRequestArguments(arg.query, arg.start, arg.start, "", ret.clock)
                ELSE parseRequestArguments(arg.query, arg.start, arg.end, arg.step,
                                           ret.clock)
       IN  ret' = [ret EXCEPT !.q = q, !.err = q.err,
                              !.pc = IF q.err # Nil THEN "done" ELSE "plan"]
    /\ UNCHANGED <<chainVars, arg>>

\* the rest of QueryCost, some time later, and LowCostRequest
CostClassify ==
    /\ ret.pc = "plan"
    /\ \E elapsed \in {0, 1} :
          LET got == QueryCost(ret.q, ret.clock + elapsed)
          IN  ret' = [ret EXCEPT !.pc = "done", !.clock = ret.clock + elapsed,
                                 !.cost = got.cost, !.err = got.err,
                                 !.low = got.cost < ObjectStorageThreshold]
    /\ UNCHANGED <<chainVars, arg>>

NextCost ==
    \/ CostParse
    \/ CostClassify

SpecCost == InitCost /\ [][NextCost]_vars

\* ------------------------------------------------------------------ claims
\* what Backpressure.Next handed back for client r
BpReturned(r) == IF cfg.observer THEN errc[r] ELSE result[r]

\* the requests check() admitted that have not run release()
Outstanding == {r \in Reqs : admitted[r] /\ released[r] = 0}

\* C1 (as stated): in every reachable state 0 <= active <= watermark.
C1_ActiveWithinWatermark == 0 <= active /\ active <= watermark

\* C1 (amended): in every reachable state 0 <= active <= max; and
\* active <= watermark is broken by no step other than the critical section
\* of updateThrottle, which lowers watermark and leaves active alone.
C1_ActiveWithinMax ==
    /\ [](0 <= active /\ active <= cfg.max)
    /\ [][(active <= watermark /\ active' > watermark')
            => /\ \E q \in cfg.queries : PollUpdate(q)
               /\ watermark' < watermark
               /\ active' = active]_vars

\* a poll has cut the watermark below the requests in flight
C1_Witness == active = 2 /\ watermark = 1 /\ allowance = 0

\* C2: min <= watermark <= max in every state reached from NewBackpressure
\* by admits, releases and allowance updates.
C2_WatermarkInWindow == cfg.min <= watermark /\ watermark <= cfg.max

\* the watermark grew to max by releases, above min
C2_Witness ==
    /\ cfg.min = 1 /\ cfg.max = MaxWindow /\ watermark = cfg.max
    /\ \E r \in Reqs : released[r] = 1

\* C3: in every state, watermark <= max(min, int(max * allowance)), and
\* watermark = min when int(max * allowance) < min: the critical section of
\* updateThrottle that sets allowance also shrinks the watermark.
C3_WatermarkWithinAllowance ==
    \A conv \in IntOfProduct(cfg.max, allowance) :
        /\ watermark <= Max2(cfg.min, conv)
        /\ conv < cfg.min => watermark = cfg.min

\* a poll has left a partial allowance whose bound lies strictly between
\* min and max, the watermark sits at it while more requests are in flight
C3_Witness ==
    /\ allowance \notin {0, Scale, NaN}
    /\ cfg.min < (cfg.max * allowance) \div Scale
    /\ (cfg.max * allowance) \div Scale < cfg.max
    /\ watermark = (cfg.max * allowance) \div Scale
    /\ \E q \in cfg.queries : pollPc[q] = "tick"

\* C4: whatever the allowance, a request that runs check() while
\* active < min is admitted.
C4_MinAlwaysAdmitted ==
    [][\A r \in Reqs :
          (task[r] = "check" /\ task'[r] # "check" /\ active < cfg.min)
             => /\ admitted'[r]
                /\ task'[r] = "final"
                /\ active' = active + 1]_vars

\* with allowance 0, min requests are admitted and in flight
C4_Witness ==
    /\ allowance = 0 /\ cfg.min = 2 /\ active = 2
    /\ \A r \in Reqs : admitted[r] /\ task[r] = "final"

\* C5: the number of requests admitted and not yet released never exceeds max.
C5_OutstandingWithinMax == Cardinality(Outstanding) <= cfg.max

\* max requests hold a slot and another one was turned away
C5_Witness ==
    /\ Cardinality(Outstanding) = cfg.max
    /\ \E r \in Reqs : task[r] = "sent" /\ BpReturned(r) = ErrBackpressureBackoff

\* C6: check() never waits; with active >= watermark it fails with the
\* RequestBlocked error of source backpressure, the next client is not
\* called and active, watermark and allowance are unchanged; otherwise
\* active grows by exactly 1 and the next client is called.
C6_Admit ==
    /\ [](\A r \in Reqs : task[r] = "check" => ENABLED BpCheck(r))
    /\ [][\A r \in Reqs :
            (task[r] = "check" /\ task'[r] # "check")
               => IF active >= watermark
                  THEN /\ task'[r] = "sent"
                       /\ IsBlocked(BpReturned(r)')
                       /\ BpReturned(r)'.type = BackpressureProxyType
                       /\ ~admitted'[r]
                       /\ UNCHANGED <<active, watermark, allowance>>
                  ELSE /\ task'[r] = "final"
                       /\ admitted'[r]
                       /\ active' = active + 1
                       /\ UNCHANGED <<watermark, allowance>>]_vars

\* a request was turned away at a full window and holds no slot
C6_Witness ==
    \E r \in Reqs :
        /\ task[r] = "sent" /\ ~admitted[r]
        /\ IsBlocked(BpReturned(r)) /\ BpReturned(r).type = BackpressureProxyType
        /\ active = watermark

\* C7: release() has run exactly once for a request as soon as the
\* goroutine that check() admitted it on has left Backpressure.Next,
\* whatever client.Next did, and has not run for any other request.
C7_ReleaseExactlyOnce ==
    \A r \in Reqs :
        released[r] = IF admitted[r] /\ task[r] = "sent" THEN 1 ELSE 0

\* an admitted request whose exit panicked under a cancelled context was released
C7_Witness ==
    \E r \in Reqs :
        /\ admitted[r] /\ released[r] = 1 /\ cancelled[r]
        /\ errc[r] = ErrPanic

\* C8 (as stated): a request whose jitter sleep was ended by its
\* cancellation goes no further: the next client is not called, it is not
\* admitted and does not reach the exit.
C8_CancelledSleepStops ==
    \A r \in Reqs :
        wokeByCancel[r] => task[r] \notin {"bp", "check", "final"} /\ ~admitted[r]

\* C9: activeGauge is the number of requests inside Observer.Next.
C9_GaugeCountsInside ==
    activeGauge = Cardinality({r \in Reqs : obs[r] = "wait"})

\* Observer.Next has returned on cancellation while the chain below is
\* still running, and the gauge is back to 0
C9_Witness ==
    /\ activeGauge = 0
    /\ \E r \in Reqs :
          obs[r] = "ret" /\ result[r] = ErrCtx /\ task[r] \in {"sleep", "final"}

\* C10 (as stated): a request whose cancellation fired before Observer.Next
\* returned gets the cancellation error from Observer.Next.
C10_CancelledGetsCtxErr ==
    \A r \in Reqs : (obs[r] = "ret" /\ cancelled[r]) => result[r] = ErrCtx

\* C10 (amended): once the cancellation has fired Observer.Next returns,
\* whether the chain below returns or not; it returns the cancellation
\* error unless a result was waiting in errc, and then either of the two.
C10_HangIsolation ==
    /\ \A r \in Reqs : (obs[r] = "wait" /\ cancelled[r]) ~> (obs[r] = "ret")
    /\ [](\A r \in Reqs :
            (obs[r] = "ret" /\ cancelled[r])
               => /\ result[r] \in {ErrCtx, errc[r]}
                  /\ task[r] # "sent" => result[r] = ErrCtx)

\* Observer.Next returned the cancellation error while the admitted
\* request is still inside the exit
C10_Witness ==
    \E r \in Reqs :
        /\ obs[r] = "ret" /\ result[r] = ErrCtx
        /\ task[r] = "final" /\ admitted[r] /\ released[r] = 0

\* C11 (as stated): a request that check() admitted and whose cancellation
\* fired while it was inside bp.client.Next gets the cancellation error
\* from Observer.Next.
C11_MidDownstreamGetsCtxErr ==
    \A r \in Reqs : (obs[r] = "ret" /\ cancelledDownstream[r]) => result[r] = ErrCtx

\* C11 (amended): for an admitted request cancelled inside bp.client.Next,
\* Observer.Next returns the cancellation error when it returns before that
\* call has ended, and the cancellation error or the result of the call
\* when it returns after; the step in which it returns takes 1 off
\* activeGauge; release() has run once when the call has ended, and not
\* before.
C11_CancelMidDownstream ==
    /\ [](\A r \in Reqs :
            cancelledDownstream[r]
               => /\ admitted[r] /\ task[r] \in {"final", "sent"}
                  /\ released[r] = IF task[r] = "sent" THEN 1 ELSE 0
                  /\ obs[r] = "ret"
                       => /\ result[r] \in {ErrCtx, errc[r]}
                          /\ task[r] = "final" => result[r] = ErrCtx)
    /\ [][\A r \in Reqs :
            (cancelledDownstream[r] /\ obs[r] = "wait" /\ obs'[r] = "ret")
               => activeGauge' = activeGauge - 1]_vars

\* Observer.Next returned the cancellation error for a request cancelled
\* inside the exit; the exit has returned since and release() has run
C11_Witness ==
    \E r \in Reqs :
        /\ cancelledDownstream[r] /\ obs[r] = "ret" /\ result[r] = ErrCtx
        /\ task[r] = "sent" /\ released[r] = 1 /\ activeGauge = 0

\* a step of the bypass for client r: LowCostRequest said LOW and
\* bp.client.Next is called, or that call returns
LowStep(r) ==
    \/ task[r] = "bp" /\ task'[r] = "final"
    \/ task[r] = "final" /\ ~admitted[r] /\ task'[r] = "sent"

\* C12: with lowCostBypass, a request classified LOW is handed to the next
\* client without check() or release(): neither step of it changes active,
\* watermark or allowance, it is never marked admitted or released, and
\* the hand-over is possible whatever active and watermark are.
C12_LowCostBypass ==
    /\ [](\A r \in Reqs :
            (task[r] = "bp" /\ active >= watermark)
               => ENABLED (BpClassify(r) /\ task'[r] = "final"))
    /\ [][\A r \in Reqs :
            LowStep(r)
               => /\ UNCHANGED <<active, watermark, allowance>>
                  /\ ~admitted'[r] /\ released'[r] = 0
                  /\ started'[r][Len(started'[r])] = "final"]_vars

\* a LOW request is inside the exit, unadmitted, while the window is full
C12_Witness ==
    \E r \in Reqs :
        /\ cfg.lowCostBypass /\ task[r] = "final" /\ ~admitted[r]
        /\ active >= watermark /\ active > 0

\* C13: with lowCostBypass, when LowCostRequest fails Backpressure.Next
\* returns its error, an error that is not a RequestBlockedError: check()
\* is not run, the next client is not called, active, watermark and
\* allowance are unchanged, and ServeHTTP answers 500.
C13_ClassificationError ==
    [][\A r \in Reqs :
          (task[r] = "bp" /\ task'[r] = "sent")
             => /\ BpReturned(r)'.kind = "error" /\ ~IsBlocked(BpReturned(r)')
                /\ ~admitted'[r] /\ released'[r] = 0
                /\ \A i \in 1 .. Len(started'[r]) : started'[r][i] # "final"
                /\ UNCHANGED <<active, watermark, allowance>>
                /\ ~cfg.observer => status'[r] = StatusInternalServerError]_vars

\* the entry answered 500 with the classification error while the window
\* had room
C13_Witness ==
    \E r \in Reqs :
        /\ obs[r] = "ret" /\ result[r] = ErrCost /\ status[r] = StatusInternalServerError
        /\ ~admitted[r] /\ started[r] = <<"bp">> /\ active < watermark

\* the request of client r has a value that the regex of some configured
\* pattern matches, under the header of that pattern
SomePatternMatches(r) ==
    \E i \in 1 .. Len(cfg.patterns) :
        \E k \in 1 .. Len(headers[r][cfg.patterns[i].header]) :
            MatchString(cfg.patterns[i].regex, headers[r][cfg.patterns[i].header][k])

\* C14 (as stated): once Blocker.Next has looked at a request, if some
\* pattern of the configured list matches one of the request's values for
\* its header the request is answered with the RequestBlocked error of
\* source blocker and the next client is not called; if none matches, the
\* next client is called.
C14_BlockerBlocks ==
    \A r \in Reqs :
        (started[r] # <<>> /\ started[r][1] = "blocker" /\ task[r] # "blocker")
           => IF SomePatternMatches(r)
              THEN /\ IsBlocked(BpReturned(r))
                   /\ BpReturned(r).type = BlockerProxyType
                   /\ started[r] = <<"blocker">>
              ELSE started[r] = <<"blocker", "final">>

\* C15: a tick whose query fails leaves the throttle value stored for every
\* query, the allowance and the watermark as they were; the goroutine is
\* back at its select, where the next tick can deliver a value, and it
\* has returned only if the Context of Init is Done.
C15_FailedPollKeepsState ==
    /\ [][\A q \in cfg.queries :
            queryErrCount'[q] # queryErrCount[q]
               => /\ queryErrCount'[q] = queryErrCount[q] + 1
                  /\ UNCHANGED <<throttleFlags, allowance, watermark>>
                  /\ pollPc'[q] = "tick"]_vars
    /\ [](\A q \in cfg.queries :
            /\ pollPc[q] = "done" => ctxDone
            /\ (pollPc[q] = "tick" /\ ~ctxDone) => ENABLED PollStore(q))

\* polls failed after one had throttled: the throttle value, the allowance
\* and the shrunk watermark are still there
C15_Witness ==
    \E q \in cfg.queries :
        /\ queryErrCount[q] = MaxPollErrors /\ pollPc[q] = "tick" /\ ~ctxDone
        /\ q \in DOMAIN throttleFlags /\ throttleFlags[q] = Scale
        /\ allowance = 0 /\ cfg.min < cfg.max /\ watermark = cfg.min

\* C16: the step of Init starts the goroutine of every configured query
\* and of nothing else, without one poll having been made; a goroutine
\* returns only when the Context of Init is Done; once it is Done (and
\* Init has run) every goroutine ends up returning; a goroutine that has
\* returned stays so, and when all have, throttleFlags, allowance and
\* watermark no longer change.
C16_PollersLifecycle ==
    /\ [][(~inited /\ inited')
            => /\ DOMAIN pollPc' = cfg.queries
               /\ \A q \in cfg.queries : pollPc[q] = "none" /\ pollPc'[q] = "tick"
               /\ UNCHANGED <<throttleFlags, allowance, watermark>>]_vars
    /\ [](\A q \in cfg.queries :
            /\ pollPc[q] = "done" => ctxDone
            /\ pollPc[q] = "none" <=> ~inited)
    /\ (ctxDone /\ inited) ~> (\A q \in cfg.queries : pollPc[q] = "done")
    /\ [][\A q \in cfg.queries : pollPc[q] = "done" => pollPc'[q] = "done"]_vars
    /\ [][(\A q \in cfg.queries : pollPc[q] = "done")
            => UNCHANGED <<throttleFlags, allowance, watermark>>]_vars

\* both goroutines have returned after the Context was cancelled, one of
\* them having throttled before
C16_Witness ==
    /\ ctxDone /\ inited
    /\ \A q \in cfg.queries : pollPc[q] = "done"
    /\ Cardinality(cfg.queries) = 2 /\ DOMAIN throttleFlags = cfg.queries
    /\ allowance < Scale

\* C17 (as stated): 0 <= allowance <= 1 in every state, and allowance = 1
\* in every state in which no query has had a successful poll yet.
C17_AllowanceInUnitInterval ==
    /\ allowance # NaN /\ 0 <= allowance /\ allowance <= Scale
    /\ DOMAIN throttleFlags = {} => allowance = Scale

\* the composition order of the stages, outermost first
CompositionOrder == <<"observer", "blocker", "jitter", "bp", "final">>

\* the stages of CompositionOrder that the configuration enables
EnabledStages(c) == SelectSeq(CompositionOrder, LAMBDA st : StageEnabled(c, st))

\* the stage that produced the error e, "" when it is not one of these
ErrorOrigin(e) ==
    IF IsBlocked(e) /\ e.type = BlockerProxyType THEN "blocker"
    ELSE IF e = ErrParse THEN "jitter"
    ELSE IF e \in {ErrCost, ErrBackpressureBackoff} THEN "bp"
    ELSE ""

C19_ErrorRendering ==
    \A r \in Reqs :
        (cfg.form = "server" /\ obs[r] = "ret")
           => /\ status[r] = StatusTooManyRequests <=> IsBlocked(result[r])
              /\ status[r] = StatusInternalServerError <=> result[r].kind = "error"
              /\ result[r] = Nil => status[r] = NoStatus
              /\ result[r] \in {ErrParse, ErrCost, ErrCtx, ErrPanic, ErrDownstream}
                    => status[r] = StatusInternalServerError
              /\ (IsBlocked(result[r]) /\ result[r].type \in ProxyTypes)
                    => status[r] = StatusTooManyRequests

\* the entry has answered one request 429 for a denied admission and
\* another 500 for a panic of the exit
C19_Witness ==
    \E r1, r2 \in Reqs :
        /\ cfg.form = "server"
        /\ obs[r1] = "ret" /\ result[r1] = ErrBackpressureBackoff
        /\ status[r1] = StatusTooManyRequests
        /\ obs[r2] = "ret" /\ result[r2] = ErrPanic
        /\ status[r2] = StatusInternalServerError

\* C20: with an Observer, while a request is inside Observer.Next no
\* counter has moved for it; once Observer.Next has returned, reqCounter
\* has gone up by 1 whatever the value returned, blockCounter of the
\* error's Type by 1 and of no other type when the value is a
\* RequestBlockedError, errCounter by 1 when it is any other error, and
\* neither of them otherwise.
C20_ObserverCounters ==
    \A r \in Reqs :
        cfg.observer
           => IF obs[r] # "ret" THEN incs[r] = NoIncs
              ELSE /\ incs[r].req = 1
                   /\ \A t \in ProxyTypes :
                         incs[r].block[t] =
                            IF IsBlocked(result[r]) /\ result[r].type = t THEN 1 ELSE 0
                   /\ incs[r].err =
                         IF result[r] = Nil \/ IsBlocked(result[r]) THEN 0 ELSE 1

\* one request was counted as blocked by the blocker, another one, which
\* was cancelled, as an error
C20_Witness ==
    \E r1, r2 \in Reqs :
        /\ obs[r1] = "ret" /\ IsBlocked(result[r1])
        /\ incs[r1].req = 1 /\ incs[r1].block[BlockerProxyType] = 1
        /\ incs[r1].block[BackpressureProxyType] = 0 /\ incs[r1].err = 0
        /\ obs[r2] = "ret" /\ result[r2] = ErrCtx /\ cancelled[r2]
        /\ incs[r2].req = 1 /\ incs[r2].err = 1

\* C21 (as stated): when the chain below the Observer has returned a value
\* (it sits in errc), Observer.Next returns that value.
C21_ObserverReturnsDownstream ==
    [][\A r \in Reqs :
          (obs[r] = "wait" /\ obs'[r] = "ret" /\ task[r] = "sent")
             => result'[r] = errc[r]]_vars

\* C21 (amended): when the chain below the Observer has returned a value,
\* Observer.Next returns that value, unchanged, if the request's Context
\* is not Done; if it is Done, it returns that value or ctx.Err().
C21_ObserverPropagates ==
    [][\A r \in Reqs :
          (obs[r] = "wait" /\ obs'[r] = "ret" /\ task[r] = "sent")
             => /\ result'[r] \in {errc[r], ErrCtx}
                /\ ~cancelled[r] => result'[r] = errc[r]]_vars

\* Observer.Next has handed up the denial of check() as it was
C21_Witness ==
    \E r \in Reqs :
        /\ cfg.observer /\ obs[r] = "ret" /\ task[r] = "sent" /\ ~cancelled[r]
        /\ errc[r] = ErrBackpressureBackoff /\ result[r] = errc[r]

FirstValue(key) == IF Len(arg.hdr[key]) = 0 THEN "" ELSE arg.hdr[key][1]

CriticalPlus ==
    arg.cfg.EnableCriticality /\ FirstValue(HeaderCriticality) = "CRITICAL_PLUS"

\* C23: once getDelay has returned: a CRITICAL_PLUS request under criticality
\* handling has delay 0 whatever X-Can-Wait says; otherwise (criticality
\* handling off, or another criticality) the delay is the configured one
\* when X-Can-Wait is absent, max(parsed, configured) when it parses, and
\* when it does not parse the parse error is returned and the next stage is
\* never called.
C23_DelayDerivation ==
    ret.pc # "getDelay" =>
        IF CriticalPlus THEN ret.err = Nil /\ ret.delay = 0
        ELSE IF FirstValue(HeaderCanWait) = ""
             THEN ret.err = Nil /\ ret.delay = arg.cfg.JitterDelay
        ELSE IF ParseDuration(FirstValue(HeaderCanWait)).err = Nil
             THEN /\ ret.err = Nil
                  /\ ret.delay >= arg.cfg.JitterDelay
                  /\ ret.delay >= ParseDuration(FirstValue(HeaderCanWait)).d
                  /\ ret.delay \in {arg.cfg.JitterDelay,
                                    ParseDuration(FirstValue(HeaderCanWait)).d}
        ELSE ret.err = ErrParse /\ ~ret.nextCalled /\ ret.pc = "done"

\* a request with X-Can-Wait: 9ns and criticality CRITICAL, under a smaller
\* configured delay and criticality handling, was forwarded after a delay
\* derived as 9ns
C23_Witness ==
    /\ ret.pc = "done" /\ ret.nextCalled
    /\ arg.cfg.EnableCriticality /\ FirstValue(HeaderCriticality) = "CRITICAL"
    /\ FirstValue(HeaderCanWait) = "9ns" /\ arg.cfg.JitterDelay = 2
    /\ ret.delay = 9

\* C24 (as stated): for every configuration that Validate accepts and every
\* request, once sleep has been called it has slept for a whole number of
\* nanoseconds in [0, delay), and for 0 when the derived delay is 0.
C24_SleepWithinDelay ==
    (ret.pc \notin {"getDelay", "sleep"} /\ ret.err = Nil) =>
        IF ret.delay = 0 THEN ret.jitter = 0
        ELSE ret.jitter \in 0 .. ret.delay - 1

\* ---- C25: steady state without pressure

SteadyDone == \A r \in SteadyReqs : obs[r] = "ret"
SteadyDenied == {r \in SteadyReqs : result[r] = ErrBackpressureBackoff}
RECURSIVE SumReleased(_)
SumReleased(rs) ==
    IF rs = {} THEN 0
    ELSE LET r == CHOOSE x \in rs : TRUE IN released[r] + SumReleased(rs \ {r})

\* C25 (as stated): with min = SteadyMin, max = MaxWindow, allowance 1 and
\* no active request at the start, of the NumSteady requests fired at once
\* none is denied by check.
C25_AllAdmitsSucceed ==
    \A r \in SteadyReqs : result[r] # ErrBackpressureBackoff /\ ~IsBlocked(result[r])

\* C25 (amended): a check admits exactly when fewer requests are active
\* than the watermark; so at least min of the requests are admitted, only
\* ErrBackpressureBackoff denies one, and when all have returned the
\* watermark is min(max, initial + releases) and no request is active.
C25_SteadyAdmits ==
    /\ [][\A r \in SteadyReqs :
             (task[r] = "check" /\ task'[r] # "check")
                => (admitted'[r] <=> active < watermark)]_vars
    /\ [](allowance = Scale /\ watermark >= cfg.min)
    /\ [](SteadyDone =>
             /\ Cardinality(SteadyReqs \ SteadyDenied) >= Min2(NumSteady, cfg.min)
             /\ \A r \in SteadyReqs : admitted[r] <=> r \notin SteadyDenied
             /\ watermark = Min2(cfg.max, cfg.min + SumReleased(SteadyReqs))
             /\ active = 0)

\* all the requests have returned, one of them denied because the other
\* two were active; the two releases took the watermark to the maximum
C25_Witness ==
    /\ SteadyDone
    /\ Cardinality(SteadyDenied) = 1
    /\ watermark = cfg.max

\* ---- C26: the counters of a query without a name

\* C26 (as stated): the per-query error counter and the per-query value gauge
\* of a query whose name is empty are never touched: a failed poll does not
\* increment the one, a successful poll does not set the other.
C26_UnnamedQuerySilent ==
    \A q \in cfg.queries :
        q.name = "" => queryErrCount[q] = 0 /\ queryValGauge[q] = NoSample

\* ---- C27: the request the final stage sees

\* C27: the request handed to the final handler has the method, URL and
\* headers it entered the chain with, and its body is the body it entered
\* with, unread: also when LowCostRequest has read the body to classify it.
C27_RequestIntact ==
    ret.pc = "served" =>
        /\ ret.req.Method = arg.req.Method
        /\ ret.req.Path = arg.req.Path
        /\ ret.req.Header = arg.req.Header
        /\ arg.req.Body = NilBody <=> ret.req.Body = NilBody
        /\ ret.req.Body.bytes = arg.req.Body.bytes
        /\ arg.req.Body # NilBody => ret.req.Body.pos = 0

\* a POST whose form body of MaxBody bytes was read to its end on the clone
\* has reached the final handler
C27_Witness ==
    /\ ret.pc = "served" /\ arg.lowCostBypass
    /\ arg.req.Method = "POST" /\ Len(arg.req.Body.bytes) = MaxBody
    /\ ret.clone.Body.pos = MaxBody
    /\ ret.req.Body.pos = 0

\* ---- C28: what Config.Validate rejects

\* a query with emergency <= warn, a negative threshold or a negative curve
BadQuery(q) ==
    \/ q.ThrottlingCurve # NaN /\ q.ThrottlingCurve < 0
    \/ q.WarningThreshold # NaN /\ q.WarningThreshold < 0
    \/ q.EmergencyThreshold # NaN /\ q.EmergencyThreshold < 0
    \/ /\ q.WarningThreshold # NaN /\ q.EmergencyThreshold # NaN
       /\ q.EmergencyThreshold <= q.WarningThreshold

\* C28: Validate returns an error when backpressure is enabled with no query,
\* with windowMin < 1, with windowMax < windowMin or with a query that has
\* emergency <= warn, a negative threshold or a negative curve, and when
\* jitter is enabled with a delay of zero; so a configuration with
\* backpressure that passes has min >= 1 and max >= min.
C28_ValidateRejects ==
    ret.pc = "done" =>
        /\ ( /\ arg.EnableBackpressure
             /\ \/ Len(arg.BackpressureQueries) = 0
                \/ arg.CongestionWindowMin < 1
                \/ arg.CongestionWindowMax < arg.CongestionWindowMin
                \/ \E i \in 1 .. Len(arg.BackpressureQueries) :
                      BadQuery(arg.BackpressureQueries[i]) )
              => ret.errs # <<>>
        /\ (arg.EnableJitter /\ arg.JitterDelay = 0) => ret.errs # <<>>
        /\ (arg.EnableBackpressure /\ ret.errs = <<>>)
              => /\ arg.CongestionWindowMin >= 1
                 /\ arg.CongestionWindowMax >= arg.CongestionWindowMin

\* a configuration whose second query has emergency = warn, with a valid
\* window and jitter enabled without a delay, was rejected for both
C28_Witness ==
    /\ ret.pc = "done"
    /\ arg.EnableBackpressure /\ Len(arg.BackpressureQueries) = 2
    /\ arg.BackpressureQueries[2].WarningThreshold = 5
    /\ arg.BackpressureQueries[2].EmergencyThreshold = 5
    /\ arg.CongestionWindowMin = 1 /\ arg.CongestionWindowMax = MaxValWindow
    /\ ret.errs = <<"ErrEmergencyBelowWarnThreshold", "ErrJitterDelayRequired">>

\* ---- C29: release

\* C29: a release is one step that sets active to max(0, active - 1) and the
\* watermark to max(min, min(watermark + 1, floor(max * allowance))), the
\* floor being the conversion int(float64(max) * allowance), and leaves the
\* allowance and the window alone; under an allowance of 0 a release, and the
\* poll that sets the allowance to 0, leave the watermark at min.
C29_ReleaseStep ==
    /\ [][\A r \in Reqs :
             released'[r] = released[r] + 1
                => /\ active' = (IF active - 1 > 0 THEN active - 1 ELSE 0)
                   /\ \E fl \in IntOfProduct(cfg.max, allowance) :
                         watermark' =
                            (LET capped == IF watermark + 1 < fl THEN watermark + 1 ELSE fl
                             IN  IF capped > cfg.min THEN capped ELSE cfg.min)
                   /\ allowance # NaN =>
                         IntOfProduct(cfg.max, allowance) = {(cfg.max * allowance) \div Scale}
                   /\ allowance' = allowance /\ cfg' = cfg
                   /\ allowance = 0 => watermark' = cfg.min]_vars
    /\ [][\A q \in cfg.queries :
             (pollPc[q] = "ranged" /\ pollPc'[q] # "ranged" /\ allowance' = 0)
                => watermark' = cfg.min]_vars

\* a release under an allowance of 0 has taken a watermark above min, with
\* two requests active, down to min
C29_Witness ==
    /\ \E r \in Reqs : released[r] = 1
    /\ allowance = 0 /\ watermark = cfg.min /\ cfg.min < cfg.max
    /\ active = 1

\* ---- C30: the aggregate over the queries

\* C30 (as stated): whenever no goroutine of metricsLoop is inside
\* updateThrottle, the allowance is 1 minus the largest throttle stored in
\* throttleFlags (0 when nothing is stored), whatever the interleaving of
\* the updates of different queries.
C30_AllowanceIsAggregate ==
    (\A q \in cfg.queries : pollPc[q] \notin {"stored", "ranged"})
        => allowance = OneMinus(RangeMax(throttleFlags, DOMAIN throttleFlags))

\* ---- C31: additive increase

\* C31: under an allowance of 1, whatever the interleaving of checks and
\* releases, the watermark is min(max, initial watermark + releases so far),
\* the initial watermark being min; and a release raises it by at most 1.
C31_AdditiveIncrease ==
    /\ [](allowance = Scale
             => watermark = Min2(cfg.max, cfg.min + SumReleased(SteadyReqs)))
    /\ [][\A r \in SteadyReqs :
             released'[r] # released[r]
                => /\ SumReleased(SteadyReqs)' = SumReleased(SteadyReqs) + 1
                   /\ watermark' \in {watermark, watermark + 1}]_vars

\* two releases have been performed while the third request is still
\* inside: the first raised the watermark to max, the second left it there
C31_Witness ==
    /\ SumReleased(SteadyReqs) = 2 /\ active = 1
    /\ cfg.min + 2 > cfg.max /\ watermark = cfg.max /\ allowance = Scale

\* ---- C32: the throttle of one query

\* C32: the throttle of a sample v is 0 for v <= warn, 1 for v >= emergency,
\* within [0, 1] and non-decreasing in v; between the thresholds it is
\* 1 - exp(-x) for x = curve * (v - warn) / (emergency - warn), the curve
\* being 4 when unset, which lies between x / (1 + x) and x; and for
\* warn = 10, emergency = 100, v = 30, max = 100 the watermark is bounded by 41.
C32_ThrottleShape ==
    ret.pc = "done" =>
        LET q == arg.q
            curve == IF q.curve = 0 THEN 4 ELSE q.curve
            num == curve * (arg.v - q.warn)
            den == q.emergency - q.warn
        IN  /\ arg.v <= q.warn => ret.tv = 0
            /\ arg.v >= q.emergency => ret.tv = Scale
            /\ 0 <= ret.tv /\ ret.tv <= Scale
            /\ arg.v <= arg.w => ret.tv <= ret.tw
            /\ (q.warn < arg.v /\ arg.v < q.emergency)
                  => /\ ret.tv * den <= Scale * num
                     /\ (ret.tv + 1) * (den + num) >= Scale * num
                     /\ ret.tv < Scale
                     /\ ret.tv = throttlePercent([q EXCEPT !.curve = curve], arg.v)
            /\ (q.warn = 10 /\ q.emergency = 100 /\ curve = 4 /\ arg.v = 30)
                  => /\ 5888 <= ret.tv /\ ret.tv <= 5890
                     /\ IntOfProduct(100, OneMinus(ret.tv)) = {41}

\* the throttle of v = 30 with the default curve, and of a sample at the
\* emergency threshold
C32_Witness ==
    /\ ret.pc = "done"
    /\ arg.q.warn = 10 /\ arg.q.emergency = 100 /\ arg.q.curve = 0
    /\ arg.v = 30 /\ arg.w = 100
    /\ ret.tv \in 5888 .. 5890 /\ ret.tw = Scale

\* ---- C33: the cost of a query

\* C33: a request on a query path whose parameters and query parse is
\* classified HIGH exactly when the earliest time its query touches (the
\* start of its time range, less the range of the selector or the 5 minute
\* lookback, less the offset) is before the time of the classification less
\* two hours, and LOW otherwise; a missing time parameter is the time the
\* parameters were read, so that without time parameters a query reaching
\* back less than two hours is LOW.
C33_CostClassification ==
    (ret.pc = "done" /\ ret.err = Nil) =>
        LET start == IF arg.start = <<>> THEN ParseClock ELSE arg.start[2]
            reach == arg.query.offset
                        + (IF arg.query.range = 0 THEN 5 ELSE arg.query.range)
        IN  /\ ~ret.low <=> start - reach < ret.clock - 120
            /\ ret.cost = (IF ret.low THEN 0 ELSE 100)
            /\ (arg.start = <<>> /\ reach < 120) => ret.low

\* a query with a 2h range selector at a time 2 minutes ago is HIGH, its
\* parameters having parsed
C33_Witness ==
    /\ ret.pc = "done" /\ ret.err = Nil /\ ~ret.low
    /\ arg.start = <<"unix", ParseClock - 2>>
    /\ arg.query.range = TwoHours /\ arg.query.offset = 0

\* ---- C34: active counts the slots held

\* C34: active is exactly the number of requests admitted and not yet
\* released, and a release never runs with active = 0: it takes active down
\* by one, the clamp at 0 having nothing to do.
C34_ActiveCountsHeld ==
    /\ [](active = Cardinality({r \in Reqs : admitted[r] /\ released[r] = 0}))
    /\ [][\A r \in Reqs : released'[r] > released[r]
             => active >= 1 /\ active' = active - 1]_vars

\* one request has released while the other still holds its slot
C34_Witness ==
    \E r, s \in Reqs :
        /\ admitted[r] /\ released[r] = 1
        /\ admitted[s] /\ released[s] = 0
        /\ active = 1

\* ---- C35: the slot of a request whose entry has returned

\* C35 as stated: whenever the chain entry (ServeHTTP or RoundTrip) has
\* returned for a request, the request holds no slot: if it was admitted, its
\* release has run.
C35_ReturnedHoldsNoSlot ==
    \A r \in Reqs : obs[r] = "ret" => ~(admitted[r] /\ released[r] = 0)

\* C35: once the call into the chain below the Observer has returned for a
\* request, the request holds no slot; the entry has returned with the slot
\* still held only when the Observer returned the error of the request's
\* cancelled Context while the spawned task is still in the chain.
C35_SlotFreedByTask ==
    \A r \in Reqs :
        /\ (task[r] = "sent" /\ admitted[r]) => released[r] = 1
        /\ (obs[r] = "ret" /\ admitted[r] /\ released[r] = 0)
              => /\ cfg.observer
                 /\ cancelled[r]
                 /\ result[r] = ErrCtx
                 /\ task[r] = "final"

\* the entry has returned what downstream returned for an admitted request
\* that went through the Observer, and the slot is free
C35_Witness ==
    \E r \in Reqs :
        /\ cfg.observer /\ obs[r] = "ret" /\ result[r] = ErrDownstream
        /\ admitted[r] /\ released[r] = 1 /\ active = 0

\* ---- C36: the users of a response writer

\* C36: in server form the entry writes an error envelope to a request's
\* response writer only when the final handler, which was handed the same
\* writer, is not running and will not run: the task that went down the
\* chain has ended.
C36_WriterHasOneUser ==
    \A r \in Reqs :
        (cfg.form = "server" /\ obs[r] = "ret" /\ status[r] # NoStatus)
            => task[r] = "sent"

\* ---- C37: the task spawned by the Observer

\* C37: the task spawned by the Observer never blocks on delivering its
\* result: it sends on errc at most once per request, into an empty channel,
\* and once it is in the final handler it can return (or panic), deliver
\* and end, whether or not the Observer has already returned.
C37_TaskNeverBlocks ==
    /\ [](\A r \in Reqs :
            (cfg.observer /\ task[r] = "final") => ENABLED FinalReturn(r))
    /\ [][\A r \in Reqs :
            (cfg.observer /\ errc'[r] # errc[r] /\ errc'[r] # NoValue)
                => errc[r] = NoValue /\ task[r] # "sent" /\ task'[r] = "sent"]_vars

\* the Observer returned the cancellation error, and the task has since
\* delivered the error made of downstream's panic and ended
C37_Witness ==
    \E r \in Reqs :
        /\ cfg.observer /\ obs[r] = "ret" /\ result[r] = ErrCtx
        /\ task[r] = "sent" /\ errc[r] = ErrPanic

\* ---- C38: what admit, release and a poll update leave alone

C39_Recovery ==
    (/\ <>[](allowance = Scale)
     /\ []<><<\E r \in Reqs : released'[r] > released[r]>>_vars)
        => <>[](watermark = cfg.max)

\* the watermark has climbed from min to a larger max by releases, the
\* allowance being 1
C39_Witness ==
    /\ cfg.min + 2 = cfg.max /\ watermark = cfg.max /\ allowance = Scale
    /\ DOMAIN throttleFlags # {}
    /\ \E r \in Reqs : admitted[r] /\ released[r] = 1
====
